---- MODULE Spec2Model ----
(***************************************************************************)
(* A model of the GEO Pulse pipeline: the Relevance Gate and the whole of  *)
(* run_enrichment, entity tagging (enrich_post), sentiment detection, the  *)
(* final deduplication, week-over-week trends (run_trends and              *)
(* _compute_deltas), theme clustering (run_clustering), the opportunity    *)
(* records, their confidence score and the Build Now slide of the          *)
(* dashboard, and the pipeline runner with its run log and output files.   *)
(*                                                                         *)
(* Texts are strings; Len, SubSeq and \o act on them character by          *)
(* character, so substring and word-boundary matching are computed the way *)
(* the Python code computes them.                                          *)
(***************************************************************************)
EXTENDS Integers, Sequences, FiniteSets, TLC

VARIABLES
    (* pipeline runner: run_pipeline.py / scheduler.py, and the reader *)
    pc,          \* position of the current run
    entry,       \* which entry point started the run
    skipScrape,  \* run_pipeline's skip_scrape argument
    runNo,       \* number of runs started so far
    since_date,  \* since_date of the current run
    new_posts,   \* local variable new_posts of the run
    files,       \* content of the four output files
    runLog,      \* data/run_log.json
    status,      \* local variable status of the run
    error,       \* local variable error of the run
    ran,         \* stages the current run has entered, in order
    raised,      \* the stage of the current run that raised, and its message
    atStart,     \* content of the output files when the current run started
    logAtStart,  \* run log when the current run started
    observed,    \* what the display layer's last load_* call read
    now,         \* the clock: how many of its instants have been read
    (* enrich_post *)
    post,        \* the post handed to enrich_post
    catalog,     \* the company catalog in use
    sig1,        \* result of a first invocation
    sig2,        \* result of a second invocation
    sigAgain,    \* result of enrich_post applied to its own output
    postBefore,  \* the post as it was before a context term was added
    (* final deduplication of run_enrichment *)
    enriched,    \* the enriched list entering the deduplication
    deduped,     \* the list leaving it
    (* _compute_deltas *)
    current,
    previous,
    deltaOut,
    (* consumers of enriched_insights.json *)
    insights,         \* the loaded Signal list
    opportunity_data, \* roadmap view
    export_opp_data,  \* export data
    clusters,         \* output of run_clustering
    (* the Relevance Gate and the whole of run_enrichment *)
    candidate,   \* the post the gate is deciding on
    verdict,     \* what the gate did with it
    all_posts,   \* the feedback list run_enrichment loaded
    batch,       \* how the call of run_enrichment ended
    (* _detect_sentiment *)
    sentence,    \* the text handed to _detect_sentiment
    sentimentOut, \* the pair it returned
    (* run_trends *)
    trend_data,  \* the record run_trends returned
    (* _export_briefing_deck *)
    selected_comps, \* the companies selected in the sidebar
    build_now,      \* the lines of the Build Now slide
    (* run_discovery *)
    existing,       \* data/discovered_sources.json
    discovery_runs  \* number of calls of run_discovery that wrote it

pipeVars   == <<pc, entry, skipScrape, runNo, since_date, new_posts, files, runLog,
                status, error, ran, raised, atStart, logAtStart, observed, now>>
enrichVars == <<post, catalog, sig1, sig2, sigAgain, postBefore>>
dedupVars  == <<enriched, deduped>>
deltaVars  == <<current, previous, deltaOut>>
viewVars   == <<insights, opportunity_data, export_opp_data, clusters>>
gateVars   == <<candidate, verdict, all_posts, batch>>
sentVars   == <<sentence, sentimentOut>>
trendVars  == <<trend_data>>
deckVars   == <<selected_comps, build_now>>
discVars   == <<existing, discovery_runs>>
moreVars   == <<gateVars, sentVars, trendVars, deckVars, discVars>>
vars       == <<pipeVars, enrichVars, dedupVars, deltaVars, viewVars, moreVars>>

None == "<none>"

-----------------------------------------------------------------------------
(* Python str and re primitives *)

Char(s, i) == SubSeq(s, i, i)

UpperAlpha == "ABCDEFGHIJKLMNOPQRSTUVWXYZ"
LowerAlpha == "abcdefghijklmnopqrstuvwxyz"
Digits     == "0123456789"

CharsOf(s) == {Char(s, i) : i \in 1..Len(s)}

UpperChars == CharsOf(UpperAlpha)
LowerChars == CharsOf(LowerAlpha)
DigitChars == CharsOf(Digits)
WordChars  == LowerChars \cup UpperChars \cup DigitChars \cup {"_"}

IsLowerAlnum(c) == c \in LowerChars \cup DigitChars

\* \w of the re module, for the ASCII texts of the model
IsWordChar(c) == c \in WordChars

\* \s of the re module, and the characters str.strip() removes
IsSpace(c) == c \in {" ", "\n", "\t"}

LowerChar(c) ==
    IF c \in UpperChars
    THEN Char(LowerAlpha, CHOOSE i \in 1..26 : Char(UpperAlpha, i) = c)
    ELSE c

RECURSIVE Lower(_)
\* str.lower()
Lower(s) == IF Len(s) = 0 THEN ""
            ELSE LowerChar(Char(s, 1)) \o Lower(SubSeq(s, 2, Len(s)))

RECURSIVE LStrip(_)
LStrip(s) == IF Len(s) > 0 /\ IsSpace(Char(s, 1))
             THEN LStrip(SubSeq(s, 2, Len(s))) ELSE s

RECURSIVE RStrip(_)
RStrip(s) == IF Len(s) > 0 /\ IsSpace(Char(s, Len(s)))
             THEN RStrip(SubSeq(s, 1, Len(s) - 1)) ELSE s

\* str.strip()
Strip(s) == RStrip(LStrip(s))

RECURSIVE RStripSlash(_)
\* str.rstrip("/")
RStripSlash(s) == IF Len(s) > 0 /\ Char(s, Len(s)) = "/"
                  THEN RStripSlash(SubSeq(s, 1, Len(s) - 1)) ELSE s

\* s[i:i+len(p)] == p
MatchAt(s, p, i) == /\ i >= 1
                    /\ i + Len(p) - 1 <= Len(s)
                    /\ SubSeq(s, i, i + Len(p) - 1) = p

\* p in s
Contains(s, p) == \E i \in 1..(Len(s) + 1) : MatchAt(s, p, i)

\* the character at position i is a word character (FALSE beyond the ends)
WordAt(s, i) == i >= 1 /\ i <= Len(s) /\ IsWordChar(Char(s, i))

\* \b holds between positions i-1 and i
Boundary(s, i) == WordAt(s, i - 1) # WordAt(s, i)

\* \b p \b matches at position i
WordMatchAt(s, p, i) == /\ MatchAt(s, p, i)
                        /\ Boundary(s, i)
                        /\ Boundary(s, i + Len(p))

\* re.search(r"\b" + re.escape(p) + r"\b", s)
WordSearch(s, p) == \E i \in 1..(Len(s) + 1) : WordMatchAt(s, p, i)

\* re.search(r"\b(p1|p2|...)\b", s) for literal alternatives
AnyWordSearch(s, pats) == \E p \in pats : WordSearch(s, p)

\* any(p in s for p in pats)
AnyContains(s, pats) == \E p \in pats : Contains(s, p)

Range(f) == {f[i] : i \in DOMAIN f}

RECURSIVE SelectSeqBy(_, _)
\* [x for x in seq if x in keep]
SelectSeqBy(seq, keep) ==
    IF seq = <<>> THEN <<>>
    ELSE (IF Head(seq) \in keep THEN <<Head(seq)>> ELSE <<>>)
         \o SelectSeqBy(Tail(seq), keep)

-----------------------------------------------------------------------------
(* trends.py: _compute_deltas *)

MaxCount == 12

\* round(x, 1) of the quotient num/den (den > 0), in tenths; a tie goes to
\* the even tenth
RoundTenths(num, den) ==
    LET a  == IF num < 0 THEN -num ELSE num
        q  == (10 * a) \div den
        r  == (10 * a) % den
        up == 2 * r > den \/ (2 * r = den /\ q % 2 = 1)
        m  == IF up THEN q + 1 ELSE q
    IN  IF num < 0 THEN -m ELSE m

\* delta_pct > k, with delta_pct = ((current - previous) / previous) * 100
DeltaPctAbove(cur, prev, k) == (cur - prev) * 100 > k * prev

\* delta_pct < k
DeltaPctBelow(cur, prev, k) == (cur - prev) * 100 < k * prev

RisingThreshold == 20
FadingThreshold == -20

\* mutant: a change of exactly +20% counts as rising
ComputeDeltasInclusive(cur, prev) ==
    IF prev = 0
    THEN IF cur = 0 THEN [delta |-> 0, direction |-> "flat"]
         ELSE [delta |-> 10 * cur, direction |-> "new"]
    ELSE IF ~DeltaPctBelow(cur, prev, RisingThreshold)
         THEN [delta |-> RoundTenths((cur - prev) * 100, prev), direction |-> "rising"]
         ELSE IF DeltaPctBelow(cur, prev, FadingThreshold)
              THEN [delta |-> RoundTenths((cur - prev) * 100, prev), direction |-> "fading"]
              ELSE [delta |-> RoundTenths((cur - prev) * 100, prev), direction |-> "stable"]

\* _compute_deltas(current, previous); delta is held in tenths of a percent
ComputeDeltas(cur, prev) ==
    IF prev = 0
    THEN IF cur = 0 THEN [delta |-> 0, direction |-> "flat"]
         ELSE [delta |-> 10 * cur, direction |-> "new"]
    ELSE IF DeltaPctAbove(cur, prev, RisingThreshold)
         THEN [delta |-> RoundTenths((cur - prev) * 100, prev), direction |-> "rising"]
         ELSE IF DeltaPctBelow(cur, prev, FadingThreshold)
              THEN [delta |-> RoundTenths((cur - prev) * 100, prev), direction |-> "fading"]
              ELSE [delta |-> RoundTenths((cur - prev) * 100, prev), direction |-> "stable"]

\* no call has returned yet
NoDelta == [delta |-> 0, direction |-> "<none>"]

DeltaIdle == current = 0 /\ previous = 0 /\ deltaOut = NoDelta

DeltaStart == /\ current \in 0..MaxCount
              /\ previous \in 0..MaxCount
              /\ deltaOut = NoDelta

CallComputeDeltas ==
    /\ deltaOut = NoDelta
    /\ deltaOut' = ComputeDeltas(current, previous)
    /\ UNCHANGED <<current, previous>>

-----------------------------------------------------------------------------
(* Alternatives of the compiled patterns of enrich.py.  Every pattern is  *)
(* compiled with re.I, so it is matched against the lowercased text.      *)

Lit(a)    == [k |-> "lit",   a |-> a, b |-> ""]   \* a
Opt(a, b) == [k |-> "opt",   a |-> a, b |-> b]    \* a.?b
One(a, b) == [k |-> "one",   a |-> a, b |-> b]    \* a.b
Gap(a, b) == [k |-> "gap",   a |-> a, b |-> b]    \* a.*b
Dig(a)    == [k |-> "digit", a |-> a, b |-> ""]   \* a\d
Money     == [k |-> "money", a |-> "$", b |-> ""] \* \$\d+[mk]

IsDigit(c) == c \in DigitChars

\* "." of the re module: any character but a newline
NoNewline(s, from, to) == \A n \in from..to : Char(s, n) # "\n"

\* the positions just after a match of alternative alt that starts at i
Ends(s, alt, i) ==
    IF ~MatchAt(s, alt.a, i) THEN {}
    ELSE LET j == i + Len(alt.a) IN
         CASE alt.k = "lit"   -> {j}
           [] alt.k = "opt"   ->
                  (IF MatchAt(s, alt.b, j) THEN {j + Len(alt.b)} ELSE {})
                  \cup (IF j <= Len(s) /\ Char(s, j) # "\n" /\ MatchAt(s, alt.b, j + 1)
                        THEN {j + 1 + Len(alt.b)} ELSE {})
           [] alt.k = "one"   ->
                  IF j <= Len(s) /\ Char(s, j) # "\n" /\ MatchAt(s, alt.b, j + 1)
                  THEN {j + 1 + Len(alt.b)} ELSE {}
           [] alt.k = "gap"   ->
                  {n + Len(alt.b) : n \in {m \in j..(Len(s) + 1) :
                        MatchAt(s, alt.b, m) /\ NoNewline(s, j, m - 1)}}
           [] alt.k = "digit" ->
                  IF j <= Len(s) /\ IsDigit(Char(s, j)) THEN {j + 1} ELSE {}
           [] alt.k = "money" ->
                  {e + 1 : e \in {m \in (j + 1)..Len(s) :
                        /\ Char(s, m) \in {"m", "k"}
                        /\ \A n \in j..(m - 1) : IsDigit(Char(s, n))}}

\* the ends at which \b(alt)\b matches from position i
WordEnds(s, alt, i) ==
    IF MatchAt(s, alt.a, i) /\ Boundary(s, i)
    THEN {e \in Ends(s, alt, i) : Boundary(s, e)} ELSE {}

\* re.compile(r"\b(alts)\b", re.I).search(text), tl the lowercased text
ReSearch(tl, alts) ==
    \E i \in 1..(Len(tl) + 1) : \E n \in DOMAIN alts : WordEnds(tl, alts[n], i) # {}

Max(S) == CHOOSE x \in S : \A y \in S : y <= x

\* the end of the match the re module finds at position i (0 when there is
\* none): the first alternative that matches, taking its optional character
\* when both ways match
MatchEndAt(tl, alts, i) ==
    LET hit == {n \in DOMAIN alts : WordEnds(tl, alts[n], i) # {}}
    IN  IF hit = {} THEN 0
        ELSE Max(WordEnds(tl, alts[CHOOSE n \in hit : \A m \in hit : n <= m], i))

RECURSIVE FindAllFrom(_, _, _)
\* len(re.compile(r"\b(alts)\b", re.I).findall(text)), scanning from i
FindAllFrom(tl, alts, i) ==
    IF i > Len(tl) + 1 THEN 0
    ELSE LET e == MatchEndAt(tl, alts, i) IN
         IF e = 0 THEN FindAllFrom(tl, alts, i + 1)
         ELSE 1 + FindAllFrom(tl, alts, IF e > i THEN e ELSE i + 1)

FindAllCount(tl, alts) == FindAllFrom(tl, alts, 1)

\* re.compile(r"(^|\n)\s*(alts)\b", re.I).search(text)
LineStartSearch(tl, alts) ==
    \E s0 \in 1..(Len(tl) + 1) :
      /\ s0 = 1 \/ Char(tl, s0 - 1) = "\n"
      /\ \E j \in s0..(Len(tl) + 1) :
           /\ \A n \in s0..(j - 1) : IsSpace(Char(tl, n))
           /\ \E n \in DOMAIN alts :
                \E e \in Ends(tl, alts[n], j) : Boundary(tl, e)

-----------------------------------------------------------------------------
(* enrich.py: vocabularies and patterns *)

\* the alternatives of POSITIVE_PATTERNS, in order
POSITIVE_PATTERNS == <<
    Lit("love"), Lit("great"), Lit("amazing"), Lit("excellent"),
    Lit("fantastic"), Lit("impressed"), Lit("perfect"), Lit("best"),
    Lit("recommend"), Opt("game", "changer"), Lit("helpful"),
    Lit("powerful"), Lit("easy to use"), Lit("well done"), Lit("solid"),
    Lit("smooth"), Lit("happy with"), Lit("pleased"), Lit("satisfied"),
    Lit("works great"), Lit("exactly what"), Lit("finally a")
>>

\* the alternatives of NEGATIVE_PATTERNS, in order
NEGATIVE_PATTERNS == <<
    Lit("terrible"), Lit("horrible"), Lit("awful"), Lit("worst"),
    Lit("hate"), Lit("frustrated"), Lit("annoying"), Lit("broken"),
    Lit("useless"), Lit("disappointed"), Lit("waste"), Lit("scam"),
    Lit("misleading"), Lit("overpriced"), Opt("doesn", "t work"),
    Lit("not working"), Lit("buggy"), Lit("slow"), Lit("inaccurate"),
    Lit("unreliable"), Lit("confusing"), Lit("clunky"), Lit("garbage"),
    Lit("joke"), Opt("rip", "off"), Opt("can", "t believe"),
    Lit("ridiculous"), Lit("unacceptable")
>>

\* the alternatives of RE_COMPLAINT, in order
RE_COMPLAINT == <<
    Lit("problem"), Lit("issue"), Lit("bug"), Lit("broken"),
    Lit("frustrated"), Lit("annoying"), Opt("can", "t"), Opt("won", "t"),
    Opt("doesn", "t work"), Lit("not working"), Lit("failed"), Lit("error"),
    Lit("waiting"), Lit("slow"), Lit("delay"), Lit("missing"), Lit("lack"),
    Lit("no way to"), Lit("unable to"), Lit("wish it"), Lit("should have"),
    Lit("terrible"), Lit("awful"), Lit("worst")
>>

\* the alternatives of RE_PRAISE, in order
RE_PRAISE == <<
    Lit("love"), Lit("great"), Lit("amazing"), Lit("excellent"),
    Lit("perfect"), Lit("best"), Lit("recommend"), Lit("impressed"),
    Opt("game", "changer"), Lit("helpful"), Lit("works great"),
    Lit("exactly what"), Lit("solid"), Lit("smooth"), Lit("finally")
>>

\* the alternatives of RE_QUESTION, in order
RE_QUESTION == <<
    Lit("how do"), Lit("how can"), Lit("how to"), Lit("what is"),
    Lit("what are"), Lit("is there"), Lit("anyone know"), Lit("has anyone"),
    Lit("can someone"), Lit("does anyone"), Lit("which tool"),
    Lit("what tool"), Lit("best way to"), Lit("looking for"),
    Lit("trying to find"), Lit("need help"), Lit("any recommendations")
>>

\* the alternatives of RE_FUNDING, in order
RE_FUNDING == <<
    Lit("raised"), Lit("funding"), Lit("series a"), Lit("series b"),
    Lit("series c"), Lit("series d"), Lit("seed round"), Lit("venture"),
    Lit("valuation"), Lit("acquired"), Lit("acquisition"), Lit("ipo"),
    Lit("investment"), Lit("investor"), Lit("backed by"), Money
>>

\* the alternatives of RE_LAUNCH, in order
RE_LAUNCH == <<
    Lit("launched"), Lit("launching"), Lit("announcing"),
    Lit("just released"), Lit("new feature"), Lit("now available"),
    Lit("introducing"), Lit("beta"), Lit("early access"),
    Lit("product hunt"), Lit("we built"), Lit("just shipped"), Dig("v1."),
    Dig("v2."), Dig("version ")
>>

\* the alternatives of RE_COMPARISON, in order
RE_COMPARISON == <<
    Lit("vs."), Lit("vs"), Lit("versus"), Lit("compared to"),
    Lit("better than"), Lit("worse than"), Lit("alternative to"),
    Lit("switched from"), Lit("moving from"), Lit("replaced"),
    Lit("instead of"), Lit("or should i")
>>

\* the alternatives of RE_BUYER, in order
RE_BUYER == <<
    Lit("looking for"), Lit("evaluating"), Lit("comparing"),
    Lit("trialing"), Lit("testing"), Lit("considering"), Lit("signed up"),
    Lit("started using"), Lit("just bought"), Lit("pricing"),
    Lit("free trial"), Lit("demo"), Lit("worth it"), Lit("should i use"),
    Lit("anyone using")
>>

\* the alternatives of RE_FOUNDER, in order
RE_FOUNDER == <<
    Lit("we built"), Lit("i built"), Lit("my startup"), Lit("our product"),
    Lit("founder"), Lit("co-founder"), One("we", "re building"),
    Lit("we just launched"), One("i", "m the creator"), Lit("our team"),
    Lit("bootstrapped"), Lit("yc "), Lit("y combinator")
>>

\* the alternatives of RE_ANALYST, in order
RE_ANALYST == <<
    Lit("according to"), Lit("report"), Lit("research"), Lit("study"),
    Lit("analysis"), Lit("survey"), Lit("data shows"), Lit("market size"),
    Lit("tam "), Lit("gartner"), Lit("forrester"), Lit("g2 crowd"),
    Lit("analyst"), Lit("venture"), Lit("investor perspective")
>>

\* the alternatives of RE_FEATURE_REQUEST, in order
RE_FEATURE_REQUEST == <<
    Lit("wish it"), Lit("should have"), Lit("would be nice"), Lit("need a"),
    Lit("looking for a tool that"), Gap("anyone know", "that can"),
    Lit("feature request"), Lit("missing feature"), Lit("no way to"),
    Lit("i want"), Lit("please add"), Lit("when will"), Lit("roadmap"),
    Lit("planned")
>>

\* GEO_CONTEXT
GEO_CONTEXT == <<
    "geo", "aeo", "ai search", "llm", "chatgpt", "gemini", "perplexity",
    "claude", "generative engine", "answer engine", "ai visibility",
    "ai overview", "seo", "search optimization", "brand visibility",
    "ai citation", "search generative", "content optimization",
    "structured data", "schema markup", "featured snippet",
    "knowledge panel", "ai recommend", "brand mention", "citation",
    "visibility score", "share of voice", "share of answer", "zero click",
    "ai overviews", "searchgpt"
>>

\* NOISE_PHRASES
NOISE_PHRASES == <<
    "i am a bot", "this action was performed automatically",
    "automoderator", "this post has been removed", "please read the rules",
    "megathread", "check out my channel", "subscribe to my",
    "use my affiliate", "promo code", "discount code"
>>

\* feature_keywords of enrich_post
feature_keywords == <<
    "dashboard", "reporting", "api", "integration", "pricing", "accuracy",
    "citation tracking", "share of voice", "recommendations", "workflow",
    "alerts", "real-time", "historical data", "export", "white label",
    "multi-brand", "custom prompts", "benchmarking"
>>

\* _GEO_SHORT_TERMS
GEO_SHORT_TERMS == {"geo", "aeo", "seo", "llm"}

\* SOURCE_QUALITY, in the order of the dict
SOURCE_QUALITY == <<
    [key |-> "G2", score |-> 5], [key |-> "Slack", score |-> 4],
    [key |-> "Hacker News", score |-> 4], [key |-> "Product Hunt", score |-> 3],
    [key |-> "News", score |-> 3], [key |-> "RSS", score |-> 3],
    [key |-> "Reddit", score |-> 2]
>>

DefaultQuality == 2

\* _has_geo_terms(text)
HasGeoTerms(text) ==
    LET t == Lower(text) IN
    \E n \in DOMAIN GEO_CONTEXT :
        IF GEO_CONTEXT[n] \in GEO_SHORT_TERMS
        THEN WordSearch(t, GEO_CONTEXT[n])
        ELSE Contains(t, GEO_CONTEXT[n])

\* mutant: one hit is already called multiple
SentimentMultipleAtOne(pos, neg) ==
    IF neg > pos THEN <<"negative", "Multiple negative expressions detected">>
    ELSE IF pos > neg THEN <<"positive", "Multiple positive expressions detected">>
    ELSE IF pos > 0 THEN <<"neutral", "Mixed positive and negative signals">>
    ELSE <<"neutral", "No strong sentiment indicators">>

\* _detect_sentiment(text), from the two hit counts
SentimentOf(pos, neg) ==
    IF neg > pos /\ neg >= 2
    THEN <<"negative", "Multiple negative expressions detected">>
    ELSE IF neg > pos
    THEN <<"negative", "Negative language outweighs positive">>
    ELSE IF pos > neg /\ pos >= 2
    THEN <<"positive", "Multiple positive expressions detected">>
    ELSE IF pos > neg
    THEN <<"positive", "Positive language outweighs negative">>
    ELSE IF pos = neg /\ pos > 0
    THEN <<"neutral", "Mixed positive and negative signals">>
    ELSE <<"neutral", "No strong sentiment indicators">>

\* _detect_sentiment(text)
DetectSentiment(text) ==
    LET tl == Lower(text) IN
    SentimentOf(FindAllCount(tl, POSITIVE_PATTERNS),
                FindAllCount(tl, NEGATIVE_PATTERNS))

\* _source_quality(source): the first key of SOURCE_QUALITY found in source
SourceQuality(source) ==
    LET s   == Lower(source)
        hit == {n \in DOMAIN SOURCE_QUALITY : Contains(s, Lower(SOURCE_QUALITY[n].key))}
    IN  IF hit = {} THEN DefaultQuality
        ELSE SOURCE_QUALITY[CHOOSE n \in hit : \A m \in hit : n <= m].score

-----------------------------------------------------------------------------
(* enrich.py: _load_companies *)

\* d[k] = v on a dict held as a sequence of entries in insertion order
DictPut(d, k, v) ==
    IF \E n \in DOMAIN d : d[n].key = k
    THEN [n \in DOMAIN d |-> IF d[n].key = k THEN [key |-> k, val |-> v] ELSE d[n]]
    ELSE Append(d, [key |-> k, val |-> v])

RECURSIVE PutAliases(_, _, _)
\* for a in c.get("aliases", []): alias_map[a.lower()] = name
PutAliases(d, aliases, name) ==
    IF aliases = <<>> THEN d
    ELSE PutAliases(DictPut(d, Lower(Head(aliases)), name), Tail(aliases), name)

RECURSIVE PutCompanies(_, _)
PutCompanies(d, cs) ==
    IF cs = <<>> THEN d
    ELSE PutCompanies(
            PutAliases(DictPut(d, Lower(Head(cs).name), Head(cs).name),
                       Head(cs).aliases, Head(cs).name),
            Tail(cs))

\* _load_companies(): alias_map, own_brand_names, context_required_names
LoadCompanies(data) ==
    [alias_map |-> PutCompanies(PutCompanies(<<>>, data.own_brands), data.competitors),
     own_brands |-> UNION {{Lower(c.name)} \cup {Lower(a) : a \in Range(c.aliases)}
                           : c \in Range(data.own_brands)},
     context_required |-> {c.name : c \in {x \in Range(data.own_brands)
                                             \cup Range(data.competitors) :
                                           x.context_required}}]

-----------------------------------------------------------------------------
(* enrich.py: enrich_post *)

\* dict.get(k, default)
Get(d, k, default) == IF k \in DOMAIN d THEN d[k] ELSE default

\* the printable ASCII characters in code-point order (the grave accent,
\* which no name of the model uses, is left out)
AsciiOrder == " !\"#$%&'()*+,-./0123456789:;<=>?@ABCDEFGHIJKLMNOPQRSTUVWXYZ[\\]^_abcdefghijklmnopqrstuvwxyz{|}~"

CodePoint(c) == CHOOSE i \in 1..Len(AsciiOrder) : Char(AsciiOrder, i) = c

RECURSIVE StrLess(_, _)
\* a < b on Python strings
StrLess(a, b) ==
    IF Len(b) = 0 THEN FALSE
    ELSE IF Len(a) = 0 THEN TRUE
    ELSE IF Char(a, 1) # Char(b, 1) THEN CodePoint(Char(a, 1)) < CodePoint(Char(b, 1))
    ELSE StrLess(SubSeq(a, 2, Len(a)), SubSeq(b, 2, Len(b)))

RECURSIVE InsertSorted(_, _)
InsertSorted(x, seq) ==
    IF seq = <<>> THEN <<x>>
    ELSE IF StrLess(x, Head(seq)) THEN <<x>> \o seq
    ELSE <<Head(seq)>> \o InsertSorted(x, Tail(seq))

RECURSIVE SortStrings(_)
SortStrings(seq) ==
    IF seq = <<>> THEN <<>> ELSE InsertSorted(Head(seq), SortStrings(Tail(seq)))

\* mutant: the set is turned into a list without sorting
UnsortedNames(iter) == iter

\* sorted(companies_mentioned); iter lists the set in the order its
\* iteration yields, which string hashing decides anew in every process
SortedNames(iter) == SortStrings(iter)

\* the enumerations of a set: every order its iteration can take
Enumerations(S) ==
    {f \in [1..Cardinality(S) -> S] : \A i, j \in DOMAIN f : f[i] = f[j] => i = j}

MinAliasLen == 3
ShortAliasLen == 4

\* mutant: every alias is matched as a substring
AliasMatchedAnywhere(alias, text_lower) == Contains(text_lower, alias)

\* the flag matched of the alias loop
AliasMatched(alias, text_lower) ==
    IF Len(alias) <= ShortAliasLen
    THEN WordSearch(text_lower, alias)
    ELSE Contains(text_lower, alias)

\* mutant: the context_required check is dropped
MentionAlwaysKept(canonical, context_required_names, has_geo_context) == TRUE

\* a matched alias is kept unless its company is context_required and the
\* post has no GEO context
MentionKept(canonical, context_required_names, has_geo_context) ==
    ~(/\ context_required_names # {}
      /\ canonical \in context_required_names
      /\ ~has_geo_context)

\* the text enrich_post works on
CombinedText(p) == Strip(Get(p, "text", "") \o " " \o Get(p, "title", ""))

\* the entries of alias_map that add their company to companies_mentioned
CountedAliases(p, cat) ==
    LET text       == CombinedText(p)
        text_lower == Lower(text)
        has_geo    == HasGeoTerms(text)
    IN  {n \in DOMAIN cat.alias_map :
            /\ Len(cat.alias_map[n].key) >= MinAliasLen
            /\ AliasMatched(cat.alias_map[n].key, text_lower)
            /\ MentionKept(cat.alias_map[n].val, cat.context_required, has_geo)}

\* the set companies_mentioned after the alias loop
CompaniesMentioned(p, cat) ==
    {cat.alias_map[n].val : n \in CountedAliases(p, cat)}

DerivedKeys == {"sentiment", "sentiment_reason", "companies_mentioned",
                "is_own_brand_mention", "entity_tags", "features_mentioned",
                "is_buyer_voice", "is_founder_voice", "is_analyst_voice",
                "is_feature_request", "is_competitive_intel", "source_quality"}

\* enrich_post(post, alias_map, own_brands, context_required_names); iter is
\* the order in which the set companies_mentioned is iterated
EnrichPost(p, cat, iter) ==
    LET text       == CombinedText(p)
        tl         == Lower(text)
        counted    == CountedAliases(p, cat)
        companies  == {cat.alias_map[n].val : n \in counted}
        own        == \E n \in counted : cat.alias_map[n].key \in cat.own_brands
        sent       == DetectSentiment(text)
        comparison == ReSearch(tl, RE_COMPARISON)
        tags       == (IF companies # {} THEN <<"company_mention">> ELSE <<>>)
                      \o (IF ReSearch(tl, RE_COMPLAINT) THEN <<"complaint">> ELSE <<>>)
                      \o (IF ReSearch(tl, RE_PRAISE) THEN <<"praise">> ELSE <<>>)
                      \o (IF LineStartSearch(tl, RE_QUESTION) THEN <<"question">> ELSE <<>>)
                      \o (IF ReSearch(tl, RE_FUNDING) THEN <<"funding_news">> ELSE <<>>)
                      \o (IF ReSearch(tl, RE_LAUNCH) THEN <<"product_launch">> ELSE <<>>)
                      \o (IF comparison THEN <<"comparison">> ELSE <<>>)
        derived    == [sentiment            |-> sent[1],
                       sentiment_reason     |-> sent[2],
                       companies_mentioned  |-> SortedNames(iter),
                       is_own_brand_mention |-> own,
                       entity_tags          |-> tags,
                       features_mentioned   |->
                           SelectSeqBy(feature_keywords,
                                       {f \in Range(feature_keywords) : Contains(tl, f)}),
                       is_buyer_voice       |-> ReSearch(tl, RE_BUYER),
                       is_founder_voice     |-> ReSearch(tl, RE_FOUNDER),
                       is_analyst_voice     |-> ReSearch(tl, RE_ANALYST),
                       is_feature_request   |-> ReSearch(tl, RE_FEATURE_REQUEST),
                       is_competitive_intel |-> comparison /\ Cardinality(companies) >= 2,
                       source_quality       |-> SourceQuality(Get(p, "source", ""))]
    IN  [k \in DOMAIN p \cup DerivedKeys |->
            IF k \in DerivedKeys THEN derived[k] ELSE p[k]]

-----------------------------------------------------------------------------
(* enrich_post on single posts *)

MaxWords == 2

\* the words the posts of the model are written with
Words == {"bolt", "Bolts", "go", "SEO", "seoul", "Profound"}

RECURSIVE Sentences(_)
\* the texts of at most n words, joined by single spaces
Sentences(n) ==
    IF n = 0 THEN {""}
    ELSE Sentences(n - 1)
         \cup {IF s = "" THEN w ELSE s \o " " \o w : s \in Sentences(n - 1), w \in Words}

Titles == {"", "AEO digest"}

Posts == {[text |-> t, title |-> ti, source |-> "Reddit", url |-> "",
           post_date |-> "2026-01-05", post_id |-> "p1"]
          : t \in Sentences(MaxWords), ti \in Titles}

\* a config/companies.json: one own brand, two competitors whose names
\* collide with ordinary words
CompaniesData ==
    [own_brands  |-> <<[name |-> "Profound", aliases |-> <<"Profound AI">>,
                        context_required |-> FALSE]>>,
     competitors |-> <<[name |-> "Bolt", aliases |-> <<"bolt.new">>,
                        context_required |-> TRUE],
                       [name |-> "Go", aliases |-> <<"GoSearch">>,
                        context_required |-> TRUE]>>]

NoSignal == [absent |-> TRUE]
NoPost   == [absent |-> TRUE]

EnrichIdle == /\ post = NoPost /\ catalog = NoPost /\ sig1 = NoSignal
              /\ sig2 = NoSignal /\ sigAgain = NoSignal /\ postBefore = NoPost

EnrichStart == /\ post \in Posts
               /\ catalog = LoadCompanies(CompaniesData)
               /\ sig1 = NoSignal /\ sig2 = NoSignal /\ sigAgain = NoSignal
               /\ postBefore = NoPost

\* two invocations of enrich_post on the same post
EnrichTwice ==
    /\ sig1 = NoSignal
    /\ \E o1, o2 \in Enumerations(CompaniesMentioned(post, catalog)) :
          /\ sig1' = EnrichPost(post, catalog, o1)
          /\ sig2' = EnrichPost(post, catalog, o2)
    /\ UNCHANGED <<post, catalog, sigAgain, postBefore>>

\* enrich_post applied to the record it returned
EnrichOutput ==
    /\ sig1 # NoSignal
    /\ sigAgain = NoSignal
    /\ \E o \in Enumerations(CompaniesMentioned(sig1, catalog)) :
          sigAgain' = EnrichPost(sig1, catalog, o)
    /\ UNCHANGED <<post, catalog, sig1, sig2, postBefore>>

\* the domain-context terms the posts of the model get added
AddedTerms == {"geo", "llm", "ai search", "chatgpt"}

\* the same post with a domain-context term added to its text, as a word of
\* its own
AddContextTerm ==
    /\ sig1 # NoSignal
    /\ postBefore = NoPost
    /\ \E t \in AddedTerms \cap Range(GEO_CONTEXT) :
          post' = [post EXCEPT !.text = @ \o " " \o t]
    /\ postBefore' = post
    /\ sig1' = NoSignal /\ sig2' = NoSignal /\ sigAgain' = NoSignal
    /\ UNCHANGED catalog

-----------------------------------------------------------------------------
(* enrich.py: the final deduplication of run_enrichment *)

\* x or "" for a value that is a string when present
OrEmpty(d, k) == Get(d, k, "")

\* (e.get("url") or "").strip().rstrip("/")
NormalizeUrl(e) == RStripSlash(Strip(OrEmpty(e, "url")))

\* mutant: only the companies count
ScoreCompaniesOnly(e) == Len(Get(e, "companies_mentioned", <<>>))

\* len(companies_mentioned) + len(entity_tags)
Score(e) == Len(Get(e, "companies_mentioned", <<>>)) + Len(Get(e, "entity_tags", <<>>))

\* mutant: a later record of equal score replaces the one held
ReplacesOnTie(new, old) == Score(new) >= Score(old)

\* new_score > old_score
Replaces(new, old) == Score(new) > Score(old)

\* mutant: the URL is used as written
UrlKeyRaw(e) == OrEmpty(e, "url")

\* the key of by_url
UrlKey(e) == NormalizeUrl(e)

DictHas(d, k) == \E n \in DOMAIN d : d[n].key = k
DictGet(d, k) == d[CHOOSE n \in DOMAIN d : d[n].key = k].val

RECURSIVE UrlPass(_, _, _)
\* the loop over enriched that fills by_url and no_url
UrlPass(by_url, no_url, rest) ==
    IF rest = <<>> THEN [by_url |-> by_url, no_url |-> no_url]
    ELSE LET e   == Head(rest)
             url == UrlKey(e)
         IN  IF url = "" THEN UrlPass(by_url, Append(no_url, e), Tail(rest))
             ELSE IF ~DictHas(by_url, url)
             THEN UrlPass(DictPut(by_url, url, e), no_url, Tail(rest))
             ELSE IF Replaces(e, DictGet(by_url, url))
             THEN UrlPass(DictPut(by_url, url, e), no_url, Tail(rest))
             ELSE UrlPass(by_url, no_url, Tail(rest))

TitleKeyLen == 60
MinTitleKey == 8

RECURSIVE KeepAlnum(_)
\* re.sub(r"[^a-z0-9]", "", s)
KeepAlnum(s) ==
    IF Len(s) = 0 THEN ""
    ELSE (IF IsLowerAlnum(Char(s, 1)) THEN Char(s, 1) ELSE "")
         \o KeepAlnum(SubSeq(s, 2, Len(s)))

\* s[:n]
Prefix(s, n) == IF Len(s) <= n THEN s ELSE SubSeq(s, 1, n)

\* mutant: the key is not truncated
TitleKeyWhole(e) == KeepAlnum(Lower(Strip(OrEmpty(e, "title"))))

\* title_key of a record
TitleKey(e) == Prefix(KeepAlnum(Lower(Strip(OrEmpty(e, "title")))), TitleKeyLen)

RECURSIVE TitlePass(_, _, _)
\* the loop over list(by_url.values()) + no_url that fills deduped
TitlePass(seen_titles, out, rest) ==
    IF rest = <<>> THEN out
    ELSE LET e   == Head(rest)
             key == TitleKey(e)
         IN  IF key # "" /\ Len(key) > MinTitleKey /\ key \in seen_titles
             THEN TitlePass(seen_titles, out, Tail(rest))
             ELSE TitlePass(IF key # "" /\ Len(key) > MinTitleKey
                            THEN seen_titles \cup {key} ELSE seen_titles,
                            Append(out, e), Tail(rest))

RECURSIVE InsertByDateDesc(_, _)
InsertByDateDesc(x, seq) ==
    IF seq = <<>> THEN <<x>>
    ELSE IF StrLess(Get(x, "post_date", ""), Get(Head(seq), "post_date", ""))
    THEN <<Head(seq)>> \o InsertByDateDesc(x, Tail(seq))
    ELSE <<x>> \o seq

RECURSIVE SortByDateDesc(_)
\* enriched.sort(key=lambda x: x.get("post_date", ""), reverse=True): stable,
\* equal dates keep their order
SortByDateDesc(seq) ==
    IF seq = <<>> THEN <<>>
    ELSE InsertByDateDesc(Head(seq), SortByDateDesc(Tail(seq)))

\* the records of by_url after the first pass, in the order of the dict
UrlSurvivors(list) ==
    LET p == UrlPass(<<>>, <<>>, list) IN [n \in DOMAIN p.by_url |-> p.by_url[n].val]

\* deduped, as run_enrichment sorts it before saving
FinalDedupOf(list) ==
    LET p == UrlPass(<<>>, <<>>, list)
    IN  SortByDateDesc(
            TitlePass({}, <<>>, [n \in DOMAIN p.by_url |-> p.by_url[n].val] \o p.no_url))

MaxSignals == 3

DedupUrls == {"", "/", "https://x.io/a", " https://x.io/a/ ", "https://x.io/b"}

\* what enrich_post derived: no company and no tag, two tags, one company
\* with its company_mention tag
DedupProfiles ==
    {[companies_mentioned |-> <<>>, entity_tags |-> <<>>, post_date |-> "2026-01-05"],
     [companies_mentioned |-> <<>>, entity_tags |-> <<"complaint", "praise">>,
      post_date |-> "2026-01-06"],
     [companies_mentioned |-> <<"Bolt">>, entity_tags |-> <<"company_mention">>,
      post_date |-> "2026-01-04"]}

DedupSignal(u, t, p) ==
    [url |-> u, title |-> t, companies_mentioned |-> p.companies_mentioned,
     entity_tags |-> p.entity_tags, post_date |-> p.post_date, post_id |-> ""]

DedupCatalogue ==
    {DedupSignal(u, "SEO Toolkit", p)
     : u \in {"", "https://x.io/a", " https://x.io/a/ "}, p \in DedupProfiles}
    \cup {DedupSignal(u, "SEO Toolkit", CHOOSE p \in DedupProfiles : p.entity_tags = <<>>)
          : u \in DedupUrls}
    \cup {DedupSignal("", "seo-toolkit!", CHOOSE p \in DedupProfiles : p.entity_tags = <<>>),
          DedupSignal("https://x.io/a", "S.E.O. tips",
                      CHOOSE p \in DedupProfiles : p.entity_tags = <<>>)}

PostIds == <<"p1", "p2", "p3", "p4", "p5">>

\* the lists of at most n catalogue records, each with its own post_id
SignalLists(n) ==
    UNION {{[i \in 1..k |-> [f[i] EXCEPT !.post_id = PostIds[i]]]
            : f \in [1..k -> DedupCatalogue]} : k \in 0..n}

NotRun == <<[absent |-> TRUE]>>

DedupIdle == enriched = <<>> /\ deduped = NotRun

DedupStart == enriched \in SignalLists(MaxSignals) /\ deduped = NotRun

\* lines 432-467 of run_enrichment on the enriched list
FinalDedup ==
    /\ deduped = NotRun
    /\ deduped' = FinalDedupOf(enriched)
    /\ UNCHANGED enriched

-----------------------------------------------------------------------------
(* Numbers and dates of the calendar *)

DigitValue(c) == CHOOSE n \in 0..9 : ToString(n) = c

RECURSIVE ToNat(_)
\* int(t) for a string of digits
ToNat(t) ==
    IF t = "" THEN 0
    ELSE 10 * ToNat(SubSeq(t, 1, Len(t) - 1)) + DigitValue(Char(t, Len(t)))

IsNumber(t) == t # "" /\ \A i \in 1..Len(t) : Char(t, i) \in DigitChars

IsLeap(y) == (y % 4 = 0 /\ y % 100 # 0) \/ y % 400 = 0

DaysInMonth(y, m) ==
    IF m = 2 THEN (IF IsLeap(y) THEN 29 ELSE 28)
    ELSE IF m \in {4, 6, 9, 11} THEN 30 ELSE 31

-----------------------------------------------------------------------------
(* run_pipeline.py, scheduler.py and the display layer's loaders *)

MaxRuns   == 2
DocChunks == 2
LogCap    == 100

Stages == <<"scrape", "enrich", "discover", "trends", "cluster">>

\* the file each stage saves (the scrapers save their own files, which no
\* later definition reads)
OutputOf(s) ==
    CASE s = "enrich"   -> "enriched_insights.json"
      [] s = "discover" -> "discovered_sources.json"
      [] s = "trends"   -> "trends.json"
      [] s = "cluster"  -> "clusters.json"

OutputFiles == {OutputOf(s) : s \in {"enrich", "discover", "trends", "cluster"}}

\* load_insights and load_trends of app.py
ReaderFiles == {"enriched_insights.json", "trends.json"}

Messages == {"disk full", "bad record"}

\* a file: missing, or holding the first chunks of the document some run
\* dumps (all DocChunks of them once the dump is over)
NoFile == [exists |-> FALSE, run |-> 0, chunks |-> 0]
Complete(c) == c.exists /\ c.chunks = DocChunks

NoRaise == [stage |-> None, msg |-> None]

\* the stage after s inside the try block; "log" after the last one
NextStage(s) ==
    IF s = Stages[Len(Stages)] THEN "log"
    ELSE Stages[(CHOOSE n \in DOMAIN Stages : Stages[n] = s) + 1]

\* mutant: the exception is swallowed and the run goes on
AfterRaiseContinue(s) == NextStage(s)

\* except Exception: control leaves the try block for the logging code
AfterRaise(s) == "log"

\* mutant: the entry does not carry the exception message
LogEntryNoError(mode, st, err, since, n, run) ==
    [run_type |-> mode, status |-> st, error |-> None, since_date |-> since,
     new_posts |-> n, completed_at |-> run]

\* the entry appended to the run log; run is the text of completed_at
LogEntry(mode, st, err, since, n, run) ==
    [run_type |-> mode, status |-> st, error |-> err, since_date |-> since,
     new_posts |-> n, completed_at |-> run]

\* mutant: the first entries are kept
TrimLogOldest(log) ==
    IF Len(log) > LogCap THEN SubSeq(log, 1, LogCap) ELSE log

\* if len(log) > 100: log = log[-100:]
TrimLog(log) ==
    IF Len(log) > LogCap THEN SubSeq(log, Len(log) - LogCap + 1, Len(log)) ELSE log

\* what datetime.now() returns as the clock is read again and again
Instants == <<"2026-01-01T00:30:00.123456", "2026-01-01T01:00:00",
              "2026-03-01T00:59:59.999999", "2026-03-01T08:15:30.500000",
              "2028-03-01T00:00:00", "2028-12-31T23:59:59",
              "2029-05-01T00:10:00.000001", "2029-05-01T09:00:00",
              "2029-11-01T00:00:01", "2029-11-02T12:00:00">>

\* datetime.now().isoformat() at the n-th reading of the clock
IsoNow(n) == Instants[n]

\* datetime.fromisoformat(ts) for the texts isoformat() makes (a date of the
\* calendar, "T", the time of the day) and for a date alone; NoStamp when it
\* raises
NoStamp == [y |-> 0, m |-> 0, d |-> 0, h |-> 0]

FromIso(ts) ==
    IF ts = None \/ (Len(ts) # 10 /\ Len(ts) < 19) THEN NoStamp
    ELSE LET ys == SubSeq(ts, 1, 4)
             ms == SubSeq(ts, 6, 7)
             ds == SubSeq(ts, 9, 10)
             hs == IF Len(ts) = 10 THEN "00" ELSE SubSeq(ts, 12, 13)
         IN  IF /\ IsNumber(ys) /\ IsNumber(ms) /\ IsNumber(ds) /\ IsNumber(hs)
                /\ Char(ts, 5) = "-" /\ Char(ts, 8) = "-"
                /\ Len(ts) > 10 => Char(ts, 11) = "T"
                /\ ToNat(ys) >= 1
                /\ ToNat(ms) \in 1..12
                /\ ToNat(ds) \in 1..DaysInMonth(ToNat(ys), ToNat(ms))
                /\ ToNat(hs) \in 0..23
             THEN [y |-> ToNat(ys), m |-> ToNat(ms), d |-> ToNat(ds), h |-> ToNat(hs)]
             ELSE NoStamp

\* dt - timedelta(hours=1), as far as the date is concerned
HourBefore(dt) ==
    IF dt.h >= 1 THEN [dt EXCEPT !.h = @ - 1]
    ELSE IF dt.d > 1 THEN [dt EXCEPT !.d = @ - 1, !.h = 23]
    ELSE IF dt.m > 1
    THEN [y |-> dt.y, m |-> dt.m - 1, d |-> DaysInMonth(dt.y, dt.m - 1), h |-> 23]
    ELSE [y |-> dt.y - 1, m |-> 12, d |-> 31, h |-> 23]

\* the digits of n, padded with zeros to the width w
Padded(n, w) ==
    LET t == ToString(n) IN
    IF Len(t) >= w THEN t ELSE SubSeq("0000", 1, w - Len(t)) \o t

\* dt.strftime("%Y-%m-%d")
Strftime(dt) == Padded(dt.y, 4) \o "-" \o Padded(dt.m, 2) \o "-" \o Padded(dt.d, 2)

\* mutant: the last entry of the log, whatever its status
LastEntryDate(log) ==
    IF log = <<>> \/ FromIso(log[Len(log)].completed_at) = NoStamp THEN None
    ELSE Strftime(HourBefore(FromIso(log[Len(log)].completed_at)))

\* _last_run_date(): the date one hour before the completed_at of the last
\* completed entry whose completed_at parses, None without such an entry
LastRunDate(log) ==
    LET done == {n \in DOMAIN log : /\ Get(log[n], "status", None) = "completed"
                                    /\ FromIso(Get(log[n], "completed_at", "")) # NoStamp}
    IN  IF done = {} THEN None
        ELSE Strftime(HourBefore(FromIso(log[Max(done)].completed_at)))

PipeIdle ==
    /\ pc = "idle" /\ entry = None /\ skipScrape = FALSE /\ runNo = 0
    /\ since_date = None /\ new_posts = 0
    /\ files = [f \in OutputFiles |-> NoFile]
    /\ runLog = <<>> /\ status = None /\ error = None /\ ran = <<>>
    /\ raised = NoRaise /\ atStart = [f \in OutputFiles |-> NoFile]
    /\ logAtStart = <<>> /\ observed = [file |-> None, content |-> NoFile]
    /\ now = 0

BeginRun ==
    /\ pc = "idle"
    /\ runNo < MaxRuns
    /\ runNo' = runNo + 1
    /\ new_posts' = 0
    /\ ran' = <<>>
    /\ raised' = NoRaise
    /\ atStart' = files
    /\ logAtStart' = runLog
    /\ UNCHANGED <<files, runLog, observed, now>>

\* run_pipeline(since_date, skip_scrape) up to the try block
RunPipeline ==
    /\ BeginRun
    /\ entry' = "run_pipeline"
    /\ \E since \in {None, "2026-01-01"} : since_date' = since
    /\ \E skip \in BOOLEAN :
          /\ skipScrape' = skip
          /\ pc' = IF skip THEN "enrich" ELSE "scrape"
    /\ status' = "completed"
    /\ error' = None

\* run_pipeline_incremental() up to the try block
RunPipelineIncremental ==
    /\ BeginRun
    /\ entry' = "scheduler"
    /\ since_date' = LastRunDate(runLog)
    /\ skipScrape' = FALSE
    /\ pc' = "scrape"
    /\ status' = None
    /\ error' = None

\* leaving the last stage: the scheduler assigns status and error there
Leave(s) ==
    /\ pc' = NextStage(s)
    /\ IF NextStage(s) = "log" /\ entry = "scheduler"
       THEN status' = "completed" /\ error' = None
       ELSE UNCHANGED <<status, error>>

\* run_all_scrapers returns the posts it collected
Scrape ==
    /\ pc = "scrape"
    /\ ran' = Append(ran, "scrape")
    /\ \E n \in {0, 2} : new_posts' = n
    /\ Leave("scrape")
    /\ UNCHANGED <<entry, skipScrape, runNo, since_date, files, runLog, raised,
                   atStart, logAtStart, observed, now>>

\* the stage at pc has opened its output file in this run
Opened(s) == files[OutputOf(s)].exists /\ files[OutputOf(s)].run = runNo

\* open(OUTPUT_PATH, "w"): the stage has computed its document and opens the
\* file, which truncates it
OpenOutput ==
    /\ pc \in {"enrich", "discover", "trends", "cluster"}
    /\ ~Opened(pc)
    /\ pc # "enrich" => files["enriched_insights.json"].exists
    /\ files' = [files EXCEPT ![OutputOf(pc)] =
                    [exists |-> TRUE, run |-> runNo, chunks |-> 0]]
    /\ ran' = Append(ran, pc)
    /\ new_posts' = IF pc = "enrich" /\ skipScrape THEN 1 ELSE new_posts
    /\ UNCHANGED <<pc, entry, skipScrape, runNo, since_date, runLog, status, error,
                   raised, atStart, logAtStart, observed, now>>

\* json.dump writes the document piece by piece; after the last piece the
\* with block closes the file and the stage returns
DumpOutput ==
    /\ pc \in {"enrich", "discover", "trends", "cluster"}
    /\ Opened(pc)
    /\ files[OutputOf(pc)].chunks < DocChunks
    /\ files' = [files EXCEPT ![OutputOf(pc)].chunks = @ + 1]
    /\ IF files[OutputOf(pc)].chunks + 1 = DocChunks
       THEN Leave(pc)
       ELSE UNCHANGED <<pc, status, error>>
    /\ UNCHANGED <<entry, skipScrape, runNo, since_date, new_posts, runLog, ran,
                   raised, atStart, logAtStart, observed, now>>

\* the early returns: run_enrichment without scraped data, run_trends
\* without dated insights, and discovery, trends and clustering without an
\* enriched file
ReturnWithoutOutput ==
    /\ pc \in {"enrich", "discover", "trends", "cluster"}
    /\ ~Opened(pc)
    /\ IF pc \in {"enrich", "trends"} THEN TRUE
       ELSE ~files["enriched_insights.json"].exists
    /\ ran' = Append(ran, pc)
    /\ Leave(pc)
    /\ UNCHANGED <<entry, skipScrape, runNo, since_date, new_posts, files, runLog,
                   raised, atStart, logAtStart, observed, now>>

\* a stage raises before it has opened its output: the except clause
\* records the failure
StageRaises ==
    /\ pc \in Range(Stages)
    /\ IF pc = "scrape" THEN TRUE ELSE ~Opened(pc)
    /\ \E msg \in Messages :
          /\ raised' = [stage |-> pc, msg |-> msg]
          /\ status' = "failed"
          /\ error' = msg
    /\ ran' = Append(ran, pc)
    /\ pc' = AfterRaise(pc)
    /\ UNCHANGED <<entry, skipScrape, runNo, since_date, new_posts, files, runLog,
                   atStart, logAtStart, observed, now>>

\* "Log the run": load, append, trim, save; then return status
LogRun ==
    /\ pc = "log"
    /\ runLog' = TrimLog(Append(runLog,
                    LogEntry(IF since_date # None THEN "incremental" ELSE "full",
                             status, error, since_date, new_posts,
                             IsoNow(now + 1))))
    /\ now' = now + 1
    /\ pc' = "idle"
    /\ UNCHANGED <<entry, skipScrape, runNo, since_date, new_posts, files, status,
                   error, ran, raised, atStart, logAtStart, observed>>

\* load_insights() / load_trends(): the display layer reads a file as it is
LoadFile ==
    /\ \E f \in ReaderFiles : observed' = [file |-> f, content |-> files[f]]
    /\ UNCHANGED <<pc, entry, skipScrape, runNo, since_date, new_posts, files, runLog,
                   status, error, ran, raised, atStart, logAtStart, now>>

-----------------------------------------------------------------------------
(* app.py: the opportunity records of the roadmap view and of the exports *)

\* OPPORTUNITY_THEMES (and _EXPORT_OPPORTUNITY_THEMES, which holds the same table)
OPPORTUNITY_THEMES == <<
    [theme |-> "Real-time Tracking", keywords |-> <<
        "real-time", "real time", "live tracking", "live monitoring",
        "instant", "continuous", "live data", "monitor"
    >>],
    [theme |-> "Multi-LLM Coverage", keywords |-> <<
        "multiple llm", "all llm", "perplexity and chatgpt", "cross-platform",
        "every ai", "all ai", "multi-model", "chatgpt and gemini",
        "claude and", "different ai", "llm coverage"
    >>],
    [theme |-> "Actionable Recs", keywords |-> <<
        "actionable", "what to do", "next steps", "recommendations",
        "how to improve", "specific advice", "optimization tip", "action item"
    >>],
    [theme |-> "ROI Measurement", keywords |-> <<
        "roi", "return on investment", "revenue impact", "attribution",
        "prove value", "business impact", "conversion", "kpi",
        "measure results", "performance metric"
    >>],
    [theme |-> "Historical Trends", keywords |-> <<
        "historical", "trend", "over time", "change over", "compare week",
        "month over month", "trajectory", "time series", "tracking progress",
        "weekly report"
    >>],
    [theme |-> "Comp. Benchmarking", keywords |-> <<
        "benchmark", "compare to competitor", "competitive",
        "industry average", "how do we compare", "vs competitor",
        "competitor analysis", "comparison", "ranking"
    >>],
    [theme |-> "Content Guidance", keywords |-> <<
        "what to write", "content recommendations", "topic suggestion",
        "content gap", "optimization guide", "content strategy",
        "content plan"
    >>],
    [theme |-> "Brand Safety", keywords |-> <<
        "brand safety", "misinformation", "hallucination about",
        "wrong information", "incorrect", "ai says wrong", "inaccurate",
        "false information", "reputation"
    >>],
    [theme |-> "Integrations", keywords |-> <<
        "integrate", "integration", "connect to", "plugin", "works with",
        "api", "google analytics", "hubspot", "webhook", "zapier",
        "export data", "third-party"
    >>]
>>

\* what the defaultdict gives a theme that is credited for the first time
NewOpportunity ==
    [complaints |-> 0, requests |-> 0, praise |-> 0, evidence |-> 0,
     companies_tried |-> {}, companies_praised |-> {}, companies_complained |-> {},
     signals |-> <<>>, confidence |-> 0, company_detail |-> <<>>]

RECURSIVE CreditCompanies(_, _, _)
\* company_detail: count and latest post_date for each company of the signal
CreditCompanies(detail, comps, post_date) ==
    IF comps = <<>> THEN detail
    ELSE LET c   == Head(comps)
             old == IF DictHas(detail, c) THEN DictGet(detail, c)
                    ELSE [count |-> 0, latest |-> ""]
             new == [count  |-> old.count + 1,
                     latest |-> IF StrLess(old.latest, post_date)
                                THEN post_date ELSE old.latest]
         IN  CreditCompanies(DictPut(detail, c, new), Tail(comps), post_date)

\* mutant: the companies of the signal are not added to companies_tried
CreditWithoutTried(od, i) ==
    LET tags      == Range(Get(i, "entity_tags", <<>>))
        comps     == Get(i, "companies_mentioned", <<>>)
        complaint == "complaint" \in tags
        praised   == "praise" \in tags /\ Get(i, "sentiment", "") = "positive"
    IN  [complaints |-> od.complaints + (IF complaint THEN 1 ELSE 0),
         requests   |-> od.requests + (IF Get(i, "is_feature_request", FALSE) THEN 1 ELSE 0),
         praise     |-> od.praise + (IF praised THEN 1 ELSE 0),
         evidence   |-> od.evidence + 1,
         companies_tried      |-> od.companies_tried,
         companies_praised    |-> od.companies_praised
                                  \cup (IF praised THEN Range(comps) ELSE {}),
         companies_complained |-> od.companies_complained
                                  \cup (IF complaint THEN Range(comps) ELSE {}),
         signals    |-> Append(od.signals, i),
         confidence |-> od.confidence,
         company_detail |-> CreditCompanies(od.company_detail, comps,
                                            Get(i, "post_date", ""))]

\* the body of "if any(kw in text_lower for kw in keywords)" for one theme
Credit(od, i) ==
    LET tags      == Range(Get(i, "entity_tags", <<>>))
        comps     == Get(i, "companies_mentioned", <<>>)
        complaint == "complaint" \in tags
        praised   == "praise" \in tags /\ Get(i, "sentiment", "") = "positive"
    IN  [complaints |-> od.complaints + (IF complaint THEN 1 ELSE 0),
         requests   |-> od.requests + (IF Get(i, "is_feature_request", FALSE) THEN 1 ELSE 0),
         praise     |-> od.praise + (IF praised THEN 1 ELSE 0),
         evidence   |-> od.evidence + 1,
         companies_tried      |-> od.companies_tried \cup Range(comps),
         companies_praised    |-> od.companies_praised
                                  \cup (IF praised THEN Range(comps) ELSE {}),
         companies_complained |-> od.companies_complained
                                  \cup (IF complaint THEN Range(comps) ELSE {}),
         signals    |-> Append(od.signals, i),
         confidence |-> od.confidence,
         company_detail |-> CreditCompanies(od.company_detail, comps,
                                            Get(i, "post_date", ""))]

RECURSIVE CreditThemes(_, _, _)
\* for opp, keywords in OPPORTUNITY_THEMES.items(): ... for one insight
CreditThemes(data, i, themes) ==
    IF themes = <<>> THEN data
    ELSE LET t          == Head(themes)
             text_lower == Lower(Get(i, "text", "") \o " " \o Get(i, "title", ""))
         IN  IF AnyContains(text_lower, Range(t.keywords))
             THEN CreditThemes(
                      DictPut(data, t.theme,
                              Credit(IF DictHas(data, t.theme)
                                     THEN DictGet(data, t.theme)
                                     ELSE NewOpportunity, i)),
                      i, Tail(themes))
             ELSE CreditThemes(data, i, Tail(themes))

RECURSIVE CreditInsights(_, _, _)
\* for i in insights: ...
CreditInsights(data, list, themes) ==
    IF list = <<>> THEN data
    ELSE CreditInsights(CreditThemes(data, Head(list), themes), Tail(list), themes)

Min(a, b) == IF a <= b THEN a ELSE b

\* the sum the confidence is made of, before the cap
ConfidenceSum(od) ==
    LET sources_seen  == {Get(s, "source", "") : s \in Range(od.signals)} \ {""}
        extra_signals == Max({od.evidence - 1, 0})
    IN  30 + Cardinality(sources_seen) * 6
           + Min(extra_signals * 5, 15)
           + (IF \E s \in Range(od.signals) : Contains(Get(s, "source", ""), "G2")
              THEN 10 ELSE 0)

\* mutant: the sum is stored as it is
UncappedConfidence(od) == ConfidenceSum(od)

\* od["confidence"] of the roadmap view
RoadmapConfidence(od) == Min(ConfidenceSum(od), 95)

\* mutant: the exports leave out the G2 bonus
ConfidenceWithoutBonus(od) ==
    Min(30 + Cardinality({Get(s, "source", "") : s \in Range(od.signals)} \ {""}) * 6
           + Min(Max({od.evidence - 1, 0}) * 5, 15), 95)

\* _eod["confidence"] of the exports
ExportConfidence(od) ==
    LET esrc_seen == {Get(s, "source", "") : s \in Range(od.signals)} \ {""}
        econf     == 30 + Cardinality(esrc_seen) * 6
                        + Min(Max({od.evidence - 1, 0}) * 5, 15)
                        + (IF \E s \in Range(od.signals) :
                                  Contains(Get(s, "source", ""), "G2")
                           THEN 10 ELSE 0)
    IN  Min(econf, 95)

\* opportunity_data of the roadmap view
OpportunityData(list) ==
    LET data == CreditInsights(<<>>, list, OPPORTUNITY_THEMES)
    IN  [n \in DOMAIN data |->
            [key |-> data[n].key,
             val |-> [data[n].val EXCEPT !.confidence = RoadmapConfidence(data[n].val)]]]

\* _export_opp_data of the module level
ExportOppData(list) ==
    LET data == CreditInsights(<<>>, list, OPPORTUNITY_THEMES)
    IN  [n \in DOMAIN data |->
            [key |-> data[n].key,
             val |-> [data[n].val EXCEPT !.confidence = ExportConfidence(data[n].val)]]]

MaxOppSignals == 8

OppSources == <<"Reddit", "Hacker News", "G2", "Product Hunt", "Slack",
                "Google News", "Search Engine Land", "", "G2 Crowd">>

OppTexts == <<"live monitoring", "Monitor ROI", "monitor api">>

\* the n-th enriched signal the views are built from
OppSignal(n) ==
    [text   |-> OppTexts[((n - 1) % Len(OppTexts)) + 1],
     title  |-> IF n % 4 = 0 THEN "Trend report" ELSE "",
     source |-> OppSources[((n - 1) % Len(OppSources)) + 1],
     entity_tags |-> IF n % 2 = 0 THEN <<"complaint">> ELSE <<"praise">>,
     sentiment   |-> IF n % 4 = 1 THEN "positive" ELSE "neutral",
     companies_mentioned |-> IF n % 3 = 0 THEN <<"Bolt">> ELSE <<>>,
     is_feature_request  |-> n % 5 = 0,
     post_date |-> "2026-01-0" \o ToString(n % 10),
     post_id   |-> "o" \o ToString(n)]

RECURSIVE Pick(_, _)
\* the signals numbered in S, among the first n, in their order
Pick(S, n) ==
    IF n = 0 THEN <<>>
    ELSE Pick(S, n - 1) \o (IF n \in S THEN <<OppSignal(n)>> ELSE <<>>)

\* no view has been built yet
NotBuilt == <<[key |-> "<none>", val |-> [absent |-> TRUE]]>>

\* run_clustering has not run yet
NotClustered == [absent |-> TRUE]

ViewIdle == /\ insights = <<>> /\ opportunity_data = NotBuilt
            /\ export_opp_data = NotBuilt /\ clusters = NotClustered

OpportunityStart ==
    /\ \E S \in SUBSET (1..MaxOppSignals) : insights = Pick(S, MaxOppSignals)
    /\ opportunity_data = NotBuilt /\ export_opp_data = NotBuilt
    /\ clusters = NotClustered

\* the roadmap view builds its opportunity records
BuildRoadmap ==
    /\ opportunity_data = NotBuilt
    /\ opportunity_data' = OpportunityData(insights)
    /\ UNCHANGED <<insights, export_opp_data, clusters>>

\* the module level builds the opportunity records of the exports
BuildExport ==
    /\ export_opp_data = NotBuilt
    /\ export_opp_data' = ExportOppData(insights)
    /\ UNCHANGED <<insights, opportunity_data, clusters>>

-----------------------------------------------------------------------------
(* cluster.py: _match_theme and run_clustering *)

\* THEME_RULES, in the order of the dict; a missing list is rules.get(..., [])
THEME_RULES == <<
    [theme |-> "Visibility & Rankings",
     keywords |-> <<
        "visibility", "ranking", "rank", "position", "serp", "ai overview",
        "ai overviews", "citation", "share of voice", "share of answer",
        "brand mention", "zero click", "featured snippet", "search result",
        "indexed", "indexing", "organic"
     >>,
     features |-> <<"citation tracking", "share of voice">>,
     tags |-> <<>>],
    [theme |-> "Content & Optimization",
     keywords |-> <<
        "content", "optimize", "optimization", "seo", "geo",
        "structured data", "schema", "markup", "keyword", "authority",
        "e-e-a-t", "eeat", "topical authority", "content strategy", "prompt",
        "answer engine"
     >>,
     features |-> <<"content optimization", "recommendations">>,
     tags |-> <<>>],
    [theme |-> "Tools & Measurement",
     keywords |-> <<
        "tool", "platform", "dashboard", "analytics", "measure", "metric",
        "report", "data", "track", "monitor", "benchmark", "api",
        "integration", "software"
     >>,
     features |-> <<"dashboard", "reporting", "api", "integration", "benchmarking">>,
     tags |-> <<"product_launch">>],
    [theme |-> "Competitive Landscape",
     keywords |-> <<
        "competitor", "alternative", "vs", "versus", "compare", "switch",
        "market", "landscape", "leader", "player", "funding", "acquisition",
        "partnership", "raised"
     >>,
     features |-> <<>>,
     tags |-> <<"comparison", "funding_news", "competitive_intel">>],
    [theme |-> "User Needs & Gaps",
     keywords |-> <<
        "need", "want", "wish", "request", "missing", "frustrated", "problem",
        "issue", "gap", "pain", "pricing", "expensive", "cost", "value", "roi"
     >>,
     features |-> <<"pricing", "accuracy", "workflow">>,
     tags |-> <<"complaint", "question">>],
    [theme |-> "Industry & Market Shifts",
     keywords |-> <<
        "industry", "market", "trend", "shift", "change", "google", "openai",
        "perplexity", "chatgpt", "regulation", "policy", "privacy", "cookie",
        "publisher", "media", "traffic", "revenue"
     >>,
     features |-> <<>>,
     tags |-> <<>>]
>>

\* the number of entries of a rule list that satisfy hit
Hits(list, hit(_)) == Cardinality({n \in DOMAIN list : hit(list[n])})

\* the score _match_theme gives one theme
ThemeScore(rules, text, tags, features) ==
    LET InText(kw)      == Contains(text, kw)
        InFeatures(f)   == f \in features
        InTags(t)       == t \in tags
    IN  Hits(rules.keywords, InText)
        + 3 * Hits(rules.features, InFeatures)
        + 2 * Hits(rules.tags, InTags)

\* mutant: the last of the best-scoring themes
LastBest(scores) ==
    LET best == Max({scores[n].val : n \in DOMAIN scores})
    IN  scores[Max({n \in DOMAIN scores : scores[n].val = best})].key

\* max(scores, key=scores.get): the first of the best-scoring themes
FirstBest(scores) ==
    LET best == Max({scores[n].val : n \in DOMAIN scores})
    IN  scores[CHOOSE n \in DOMAIN scores :
                  /\ scores[n].val = best
                  /\ \A m \in DOMAIN scores : scores[m].val = best => n <= m].key

\* _match_theme(insight)
MatchTheme(insight) ==
    LET text     == Lower(Get(insight, "text", "") \o " " \o Get(insight, "title", ""))
        tags     == Range(Get(insight, "entity_tags", <<>>))
        features == Range(Get(insight, "features_mentioned", <<>>))
        all      == [n \in DOMAIN THEME_RULES |->
                        [key |-> THEME_RULES[n].theme,
                         val |-> ThemeScore(THEME_RULES[n], text, tags, features)]]
        scores   == SelectSeq(all, LAMBDA e : e.val > 0)
    IN  IF scores = <<>> THEN "Uncategorized" ELSE FirstBest(scores)

\* what the defaultdict gives a theme that receives its first insight
NewCluster ==
    [insights |-> <<>>, count |-> 0, sentiments |-> <<>>, top_companies |-> <<>>,
     top_tags |-> <<>>, sample_titles |-> <<>>]

RECURSIVE Tally(_, _)
\* d[k] += 1 for every k of keys, d a defaultdict(int)
Tally(d, keys) ==
    IF keys = <<>> THEN d
    ELSE Tally(DictPut(d, Head(keys),
                       (IF DictHas(d, Head(keys)) THEN DictGet(d, Head(keys)) ELSE 0) + 1),
               Tail(keys))

\* the body of "for insight in insights" on the cluster c of its theme
AddInsight(c, insight) ==
    LET title == Get(insight, "title", "")
    IN  [insights      |-> Append(c.insights, Get(insight, "post_id", "")),
         count         |-> c.count + 1,
         sentiments    |-> Tally(c.sentiments, <<Get(insight, "sentiment", "neutral")>>),
         top_companies |-> Tally(c.top_companies, Get(insight, "companies_mentioned", <<>>)),
         top_tags      |-> Tally(c.top_tags, Get(insight, "entity_tags", <<>>)),
         sample_titles |-> IF /\ Len(c.sample_titles) < 5
                              /\ title # ""
                              /\ title \notin Range(c.sample_titles)
                           THEN Append(c.sample_titles, title)
                           ELSE c.sample_titles]

RECURSIVE Assign(_, _)
\* the loop that assigns every insight to the cluster of its theme
Assign(cl, list) ==
    IF list = <<>> THEN cl
    ELSE LET theme == MatchTheme(Head(list))
             c     == IF DictHas(cl, theme) THEN DictGet(cl, theme) ELSE NewCluster
         IN  Assign(DictPut(cl, theme, AddInsight(c, Head(list))), Tail(list))

RECURSIVE InsertByRankDesc(_, _)
InsertByRankDesc(x, seq) ==
    IF seq = <<>> THEN <<x>>
    ELSE IF x.rank < Head(seq).rank
    THEN <<Head(seq)>> \o InsertByRankDesc(x, Tail(seq))
    ELSE <<x>> \o seq

RECURSIVE SortByRankDesc(_)
\* sorted(..., key=rank, reverse=True) and sorted(..., key=-rank): stable,
\* equal ranks keep their order
SortByRankDesc(seq) ==
    IF seq = <<>> THEN <<>>
    ELSE InsertByRankDesc(Head(seq), SortByRankDesc(Tail(seq)))

\* dict(sorted(d.items(), key=lambda x: -x[1])[:10])
Top(d) ==
    LET ranked == SortByRankDesc([n \in DOMAIN d |->
                      [key |-> d[n].key, val |-> d[n].val, rank |-> d[n].val]])
    IN  Prefix([n \in DOMAIN ranked |-> [key |-> ranked[n].key, val |-> ranked[n].val]],
               10)

\* the document run_clustering saves and returns (generated_at left out);
\* pct is held in tenths of a percent
ClusteringOf(list) ==
    LET cl        == Assign(<<>>, list)
        sorted    == SortByRankDesc([n \in DOMAIN cl |->
                         [key |-> cl[n].key, val |-> cl[n].val,
                          rank |-> cl[n].val.count]])
    IN  [total_insights |-> Len(list),
         clusters |->
            [n \in DOMAIN sorted |->
                [key |-> sorted[n].key,
                 val |-> [count         |-> sorted[n].val.count,
                          pct           |-> RoundTenths(sorted[n].val.count * 100,
                                                        Max({Len(list), 1})),
                          sentiments    |-> sorted[n].val.sentiments,
                          top_companies |-> Top(sorted[n].val.top_companies),
                          top_tags      |-> Top(sorted[n].val.top_tags),
                          sample_titles |-> sorted[n].val.sample_titles,
                          insight_ids   |-> sorted[n].val.insights]]]]

RECURSIVE PreDedupFrom(_, _, _)
\* enrich.py, "Pre-dedup by post_id / text prefix"
PreDedupFrom(seen, unique, rest) ==
    IF rest = <<>> THEN unique
    ELSE LET p   == Head(rest)
             key == IF Get(p, "post_id", "") # "" THEN p.post_id
                    ELSE Prefix(Get(p, "text", ""), 100)
         IN  IF key # "" /\ key \notin seen
             THEN PreDedupFrom(seen \cup {key}, Append(unique, p), Tail(rest))
             ELSE PreDedupFrom(seen, unique, Tail(rest))

PreDedup(posts) == PreDedupFrom({}, <<>>, posts)

MaxInsights == 3

\* scraped posts: some scrapers fill post_id with p.get("id", ""), which is
\* empty for an item without an id
ClusterPosts ==
    {[text |-> r[1], title |-> r[2], post_id |-> r[3], source |-> "Reddit",
      url |-> "https://reddit.com/r/seo/" \o r[4], post_date |-> "2026-01-05"]
     : r \in {<<"our rank fell",  "AEO rank drop",      "",   "a">>,
              <<"we need an api", "LLM api wishlist",   "",   "b">>,
              <<"hello",          "AEO weekly digest",  "r1", "c">>,
              <<"pricing issue",  "AEO pricing gripes", "r1", "d">>,
              <<"market change",  "LLM market shift",   "r2", "e">>,
              <<"which tool",     "AEO tool vs tool",   "",   "f">>,
              <<"tool market",    "LLM tool market",    "r3", "g">>}}

\* the signals enrich_post makes of them (none of them names a company)
ClusterCatalogue ==
    {EnrichPost(p, LoadCompanies(CompaniesData), <<>>) : p \in ClusterPosts}

\* the lists of at most n distinct signals
DistinctLists(S, n) ==
    UNION {{f \in [1..k -> S] : \A a, b \in 1..k : a # b => f[a] # f[b]} : k \in 0..n}

\* enriched lists as run_enrichment saves them: what the pre-dedup, the
\* final dedup and the sort leave as it is
ClusteringStart ==
    /\ insights \in {l \in DistinctLists(ClusterCatalogue, MaxInsights) :
                        PreDedup(l) = l /\ FinalDedupOf(l) = l}
    /\ opportunity_data = NotBuilt /\ export_opp_data = NotBuilt
    /\ clusters = NotClustered

\* run_clustering() on the enriched file
RunClustering ==
    /\ clusters = NotClustered
    /\ clusters' = ClusteringOf(insights)
    /\ UNCHANGED <<insights, opportunity_data, export_opp_data>>

-----------------------------------------------------------------------------
(* Values of the variables of an operation that has not run *)

\* the gate has not decided yet
NoVerdict == "<none>"

\* run_enrichment has not been called yet
NoBatch == [absent |-> TRUE]

\* _detect_sentiment has not been called yet
NoSentiment == <<"<none>", "<none>">>

\* run_trends has not been called yet
NoTrends == [absent |-> TRUE]

\* the briefing deck has not been exported yet
NoDeck == [absent |-> TRUE]

GateIdle == /\ candidate = NoPost /\ verdict = NoVerdict
            /\ all_posts = <<>> /\ batch = NoBatch

SentimentIdle == sentence = "" /\ sentimentOut = NoSentiment

TrendsIdle == trend_data = NoTrends

DeckIdle == selected_comps = <<>> /\ build_now = NoDeck

\* run_discovery has not written its file yet
DiscoveryIdle == existing = <<>> /\ discovery_runs = 0

MoreIdle == GateIdle /\ SentimentIdle /\ TrendsIdle /\ DeckIdle /\ DiscoveryIdle

-----------------------------------------------------------------------------
(* enrich.py: the Relevance Gate of run_enrichment *)

\* TITLE_BLOCKLIST: the alternatives searched anywhere in the title, and
\* the one searched between word boundaries
TITLE_BLOCKLIST ==
    [plain |-> <<Lit("[dead]"), Lit("[flagged]"), Lit("[deleted]"),
                 Lit("who is hiring"), One("who", "s hiring"), Lit("ask hn:"),
                 Lit("hiring thread"), Gap("freelancer", "seeking"),
                 Gap("monthly", "job")>>,
     word  |-> <<Lit("tesla")>>]

\* _CONDITIONAL_BLOCKLIST, every alternative between word boundaries
CONDITIONAL_BLOCKLIST == <<Lit("microsoft"), Lit("apple"), Lit("netflix")>>

\* GEO_SOURCES
GEO_SOURCES == {"G2", "Product Hunt"}

MinTitleLen == 10

\* re.compile(alts, re.I).search(text), tl the lowercased text
PlainSearch(tl, alts) ==
    \E i \in 1..(Len(tl) + 1) : \E n \in DOMAIN alts : Ends(tl, alts[n], i) # {}

\* TITLE_BLOCKLIST.search(title)
TitleBlocked(title) ==
    LET tl == Lower(title) IN
    PlainSearch(tl, TITLE_BLOCKLIST.plain) \/ ReSearch(tl, TITLE_BLOCKLIST.word)

\* _CONDITIONAL_BLOCKLIST.search(title)
ConditionalBlocked(title) == ReSearch(Lower(title), CONDITIONAL_BLOCKLIST)

\* (post.get("title") or "").strip()
GateTitle(p) ==
    LET raw == Get(p, "title", None) IN Strip(IF raw = None THEN "" ELSE raw)

\* post.get("text", "") + " " + title, for a text that is a string
GateText(p) == Get(p, "text", "") \o " " \o GateTitle(p)

\* any(n in text_lower for n in NOISE_PHRASES)
HasNoise(text_lower) == \E n \in DOMAIN NOISE_PHRASES : Contains(text_lower, NOISE_PHRASES[n])

\* any(alias in text_lower for alias in company_terms if len(alias) >= 3)
MentionsCompany(text_lower, company_terms) ==
    \E alias \in company_terms : Len(alias) >= MinAliasLen /\ Contains(text_lower, alias)

\* company_terms = set(alias_map.keys())
CompanyTerms(cat) == {cat.alias_map[n].key : n \in DOMAIN cat.alias_map}

\* mutant: the title length is not checked
GateIgnoresLength(title) == FALSE

\* len(title) < 10
TitleTooShort(title) == Len(title) < MinTitleLen

\* mutant: the whitelist is matched as a substring of the source
SourceContainsGeo(source) == \E s \in GEO_SOURCES : Contains(source, s)

\* mutant: no source is whitelisted
NeverGeoSource(source) == FALSE

\* source in GEO_SOURCES
IsGeoSource(source) == source \in GEO_SOURCES

\* mutant: a context term anywhere in the post lifts the conditional rule
RescuedByText(title, text) == HasGeoTerms(text)

\* _has_geo_terms(title) of the conditional rule
RescuedByTitle(title, text) == HasGeoTerms(title)

\* one iteration of the gate loop: the counter it increments, "relevant"
\* when it appends the post, "TypeError" when the concatenation of a null
\* text raises
Gate(p, company_terms) ==
    LET title == GateTitle(p) IN
    IF Get(p, "text", "") = None THEN "TypeError"
    ELSE LET text       == GateText(p)
             text_lower == Lower(text)
         IN  IF TitleTooShort(title) THEN "excluded_hard"
             ELSE IF TitleBlocked(title) THEN "excluded_hard"
             ELSE IF ConditionalBlocked(title) /\ ~RescuedByTitle(title, text)
             THEN "excluded_cond"
             ELSE IF HasNoise(text_lower) THEN "excluded_noise"
             ELSE IF /\ IsGeoSource(Get(p, "source", ""))
                     /\ MentionsCompany(text_lower, company_terms)
             THEN "relevant"
             ELSE IF HasGeoTerms(text) THEN "relevant"
             ELSE "excluded_no_geo"

-----------------------------------------------------------------------------
(* The gate on single posts *)

\* titles as the scrapers deliver them; None is a null title
GateTitles ==
    {None, "", "  Bolt SEO ", "Ask HN: best SEO tools", "Tesla and AEO news",
     "Apple ships new phone", "Apple bets on AI search", "Bolt review roundup",
     "Weekly SEO roundup", "Geology field notes", "Honest tool review",
     "Pineapple AEO recipes", "monthly GEO\njob board"}

GateTexts ==
    {None, "", "great tool", "llm ranking tips", "I am a bot",
     "Profound AI rocks", "go faster", "seoul trip"}

GateSources == {"G2", "Product Hunt", "Reddit", "G2 Reviews"}

\* the posts the gate is tried on; a missing key is a missing field
GatePosts ==
    {[title |-> ti, text |-> tx, source |-> s, post_id |-> "p1",
      post_date |-> "2026-01-05", url |-> ""]
        : ti \in GateTitles, tx \in GateTexts, s \in GateSources}
    \cup {[text |-> tx, source |-> s, post_id |-> "p1"]
            : tx \in GateTexts, s \in GateSources}
    \cup {[title |-> ti, post_id |-> "p1"] : ti \in GateTitles}

GateStart == /\ candidate \in GatePosts /\ verdict = NoVerdict
             /\ all_posts = <<>> /\ batch = NoBatch

\* the gate loop reaches the post
ApplyGate ==
    /\ verdict = NoVerdict
    /\ verdict' = Gate(candidate, CompanyTerms(LoadCompanies(CompaniesData)))
    /\ UNCHANGED <<candidate, all_posts, batch>>

-----------------------------------------------------------------------------
(* enrich.py: run_enrichment as a whole *)

\* the pre-dedup loop subscripts a null text when the post_id is empty
PreDedupRaises(posts) ==
    \E n \in DOMAIN posts : /\ Get(posts[n], "post_id", "") = ""
                            /\ Get(posts[n], "text", "") = None

\* the counters of the gate loop before its first iteration
GateLoopStart ==
    [raised |-> FALSE, relevant |-> <<>>,
     excluded |-> [excluded_hard |-> 0, excluded_cond |-> 0,
                   excluded_noise |-> 0, excluded_no_geo |-> 0]]

RECURSIVE GateLoop(_, _, _)
\* for post in unique: ...; nothing catches what an iteration raises, so the
\* first post that raises ends the loop and the call
GateLoop(acc, rest, company_terms) ==
    IF rest = <<>> THEN acc
    ELSE LET v == Gate(Head(rest), company_terms) IN
         IF v = "TypeError" THEN [acc EXCEPT !.raised = TRUE]
         ELSE IF v = "relevant"
         THEN GateLoop([acc EXCEPT !.relevant = Append(@, Head(rest))],
                       Tail(rest), company_terms)
         ELSE GateLoop([acc EXCEPT !.excluded[v] = @ + 1], Tail(rest), company_terms)

\* [p for p in relevant if p.get("post_date", "") >= since_date], when
\* since_date is given
DateFilter(relevant, since) ==
    IF since = None THEN relevant
    ELSE SelectSeq(relevant, LAMBDA p : ~StrLess(Get(p, "post_date", ""), since))

\* enrich_post(post, ...) raises: _source_quality lowers a null source
EnrichRaises(p) == Get(p, "source", "") = None

\* the list of enrich_post(post, ...) for post in relevant; the order in
\* which the set of companies is iterated does not reach the result, which
\* is sorted
EnrichAll(relevant, cat) ==
    [n \in DOMAIN relevant |->
        EnrichPost(relevant[n], cat,
                   CHOOSE o \in Enumerations(CompaniesMentioned(relevant[n], cat)) : TRUE)]

\* the call ended by an exception: nothing is written, nothing is returned
Aborted(since) ==
    [raised |-> TRUE, saved |-> FALSE, since |-> since, output |-> <<>>,
     excluded |-> GateLoopStart.excluded]

\* run_enrichment(since_date) on the loaded list all_posts
RunEnrichmentOf(posts, since, cat) ==
    IF posts = <<>>
    THEN [raised |-> FALSE, saved |-> FALSE, since |-> since, output |-> <<>>,
          excluded |-> GateLoopStart.excluded]
    ELSE IF PreDedupRaises(posts) THEN Aborted(since)
    ELSE LET gate     == GateLoop(GateLoopStart, PreDedup(posts), CompanyTerms(cat))
             relevant == DateFilter(gate.relevant, since)
         IN  IF gate.raised THEN Aborted(since)
             ELSE IF \E n \in DOMAIN relevant : EnrichRaises(relevant[n])
             THEN Aborted(since)
             ELSE [raised |-> FALSE, saved |-> TRUE, since |-> since,
                   output |-> FinalDedupOf(EnrichAll(relevant, cat)),
                   excluded |-> gate.excluded]

MaxBatch == 3

\* scraped posts: sound ones, one with a title too short, and three a
\* scraper delivered with a null field
BatchPosts ==
    {[post_id |-> "b1", title |-> "Weekly SEO roundup", text |-> "llm ranking tips",
      source |-> "Reddit", url |-> "https://x.io/1", post_date |-> "2026-01-05"],
     [post_id |-> "b2", title |-> "Bolt review roundup", text |-> "great tool",
      source |-> "G2", url |-> "https://x.io/2", post_date |-> "2026-01-12"],
     [post_id |-> "b3", title |-> "AEO pricing gripes", text |-> None,
      source |-> "Reddit", url |-> "https://x.io/3", post_date |-> "2026-01-12"],
     [post_id |-> "", title |-> "AEO weekly digest", text |-> None,
      source |-> "Reddit", url |-> "https://x.io/4", post_date |-> "2026-01-12"],
     [post_id |-> "b5", title |-> "LLM market shift", text |-> "market change",
      source |-> None, url |-> "https://x.io/5", post_date |-> "2026-01-12"],
     [post_id |-> "b6", title |-> "SEO", text |-> "which tool",
      source |-> "Reddit", url |-> "https://x.io/6", post_date |-> "2026-01-12"],
     [post_id |-> "b7", title |-> "Honest tool review", text |-> "seoul trip",
      source |-> "Reddit", url |-> "https://x.io/7", post_date |-> "2025-12-29"]}

BatchSince == {None, "2026-01-05"}

BatchStart == /\ candidate = NoPost /\ verdict = NoVerdict
              /\ all_posts \in DistinctLists(BatchPosts, MaxBatch)
              /\ batch = NoBatch

\* one call of run_enrichment, from loading the scraped files to the summary
RunEnrichment ==
    /\ batch = NoBatch
    /\ \E since \in BatchSince :
          batch' = RunEnrichmentOf(all_posts, since, LoadCompanies(CompaniesData))
    /\ UNCHANGED <<candidate, verdict, all_posts>>

-----------------------------------------------------------------------------
(* _detect_sentiment on texts *)

MaxSentiWords == 3

\* words of the two pattern sets, and words of neither
SentiWords == {"love", "Great", "game-changer", "awful", "slow", "doesnt work", "tool"}

RECURSIVE SentiTexts(_)
\* the texts of at most n of these words, joined by single spaces
SentiTexts(n) ==
    IF n = 0 THEN {""}
    ELSE SentiTexts(n - 1)
         \cup {IF s = "" THEN w ELSE s \o " " \o w : s \in SentiTexts(n - 1), w \in SentiWords}

SentimentStart == sentence \in SentiTexts(MaxSentiWords) /\ sentimentOut = NoSentiment

\* a call of _detect_sentiment(text)
CallDetectSentiment ==
    /\ sentimentOut = NoSentiment
    /\ sentimentOut' = DetectSentiment(sentence)
    /\ UNCHANGED sentence

-----------------------------------------------------------------------------
(* The title pass on enriched lists with long and short titles *)

\* enriched records with and without URL: titles that differ only in
\* punctuation and case, titles whose key is short, and titles that agree
\* on the first 60 characters of their key and differ after them
TitleDedupCatalogue ==
    {DedupSignal(r[1], r[2], CHOOSE p \in DedupProfiles : p.entity_tags = <<>>)
     : r \in {<<"", "SEO Toolkit">>,
              <<"https://x.io/a", "seo-toolkit!">>,
              <<"https://x.io/b", "SEO Toolkit">>,
              <<"", "S.E.O. tips">>,
              <<"https://x.io/a", "S.E.O. tips">>,
              <<"", "Generative engine optimization playbook for enterprise marketing teams, part one">>,
              <<"https://x.io/a", "Generative engine optimization playbook for enterprise marketing teams, part one">>,
              <<"https://x.io/b", "Generative Engine Optimization playbook for enterprise marketing teams - Part Two">>}}

\* the lists of at most n of these records, each with its own post_id
TitleDedupLists(n) ==
    UNION {{[i \in 1..k |-> [f[i] EXCEPT !.post_id = PostIds[i]]]
            : f \in [1..k -> TitleDedupCatalogue]} : k \in 0..n}

TitleDedupStart == enriched \in TitleDedupLists(MaxSignals) /\ deduped = NotRun

-----------------------------------------------------------------------------
(* app.py: the Build Now slide of _export_briefing_deck *)

\* red_count: the selected companies in none of the three sets of the record
RedCount(od, selected) ==
    Cardinality({n \in DOMAIN selected :
                    /\ selected[n] \notin od.companies_praised
                    /\ selected[n] \notin od.companies_complained
                    /\ selected[n] \notin od.companies_tried})

MinEvidence == 3

\* mutant: half of the selection is enough
IsBuildNowAtHalf(od, selected) ==
    od.evidence >= MinEvidence /\ 2 * RedCount(od, selected) >= Len(selected)

\* the two tests of the loop: evidence, and red_count > len(selected_comps) / 2
IsBuildNow(od, selected) ==
    od.evidence >= MinEvidence /\ 2 * RedCount(od, selected) > Len(selected)

\* the lines the loop over sorted(opportunity_data.items(),
\* key=evidence, reverse=True) writes; with none, the slide says that no
\* feature meets the criteria
BuildNowLines(data, selected) ==
    LET sorted == SortByRankDesc([n \in DOMAIN data |->
                      [key |-> data[n].key, val |-> data[n].val,
                       rank |-> data[n].val.evidence]])
        hits   == SelectSeq(sorted, LAMBDA x : IsBuildNow(x.val, selected))
    IN  [lines |-> [n \in DOMAIN hits |->
                       [opp |-> hits[n].key, confidence |-> hits[n].val.confidence,
                        evidence |-> hits[n].val.evidence]],
         none_text |-> hits = <<>>]

\* selections of the sidebar, in the order of the multiselect
Selections ==
    {<<>>, <<"Bolt">>, <<"Bolt", "Go">>, <<"Go", "Profound">>,
     <<"Bolt", "Go", "Profound">>}

DeckStart ==
    /\ \E S \in SUBSET (1..MaxOppSignals) : insights = Pick(S, MaxOppSignals)
    /\ opportunity_data = NotBuilt /\ export_opp_data = NotBuilt
    /\ clusters = NotClustered
    /\ selected_comps \in Selections /\ build_now = NoDeck

\* _export_briefing_deck(..., opportunity_data, selected_comps, ...), slide 5
ExportBriefingDeck ==
    /\ opportunity_data # NotBuilt
    /\ build_now = NoDeck
    /\ build_now' = BuildNowLines(opportunity_data, selected_comps)
    /\ UNCHANGED selected_comps

-----------------------------------------------------------------------------
(* trends.py: _iso_week *)

\* datetime.strptime(date_str, "%Y-%m-%d"): four digits of year, one or two
\* of month and of day, a date of the calendar; NoDate when it raises
\* ValueError, or TypeError for a null
NoDate == [y |-> 0, m |-> 0, d |-> 0]

ParseDate(date_str) ==
    LET dashes == {i \in 1..Len(date_str) : Char(date_str, i) = "-"} IN
    IF date_str = None \/ Cardinality(dashes) # 2 THEN NoDate
    ELSE LET i  == CHOOSE a \in dashes : \A b \in dashes : a <= b
             j  == CHOOSE a \in dashes : \A b \in dashes : b <= a
             ys == SubSeq(date_str, 1, i - 1)
             ms == SubSeq(date_str, i + 1, j - 1)
             ds == SubSeq(date_str, j + 1, Len(date_str))
         IN  IF /\ IsNumber(ys) /\ Len(ys) = 4
                /\ IsNumber(ms) /\ Len(ms) <= 2
                /\ IsNumber(ds) /\ Len(ds) <= 2
                /\ ToNat(ys) >= 1
                /\ ToNat(ms) \in 1..12
                /\ ToNat(ds) \in 1..DaysInMonth(ToNat(ys), ToNat(ms))
             THEN [y |-> ToNat(ys), m |-> ToNat(ms), d |-> ToNat(ds)]
             ELSE NoDate

RECURSIVE DayOfYear(_, _, _)
DayOfYear(y, m, d) == IF m = 1 THEN d ELSE DaysInMonth(y, m - 1) + DayOfYear(y, m - 1, d)

\* the weekday of a date, Monday 1 to Sunday 7
IsoWeekday(y, m, d) ==
    LET before == 365 * (y - 1) + ((y - 1) \div 4) - ((y - 1) \div 100) + ((y - 1) \div 400)
    IN  ((before + DayOfYear(y, m, d) - 1) % 7) + 1

\* the number of ISO weeks of a year
WeeksInYear(y) ==
    IF IsoWeekday(y, 1, 1) = 4 \/ (IsLeap(y) /\ IsoWeekday(y, 1, 1) = 3) THEN 53 ELSE 52

\* dt.isocalendar(): ISO year and ISO week
IsoCalendar(y, m, d) ==
    LET w == (DayOfYear(y, m, d) - IsoWeekday(y, m, d) + 10) \div 7 IN
    IF w < 1 THEN [year |-> y - 1, week |-> WeeksInYear(y - 1)]
    ELSE IF w > WeeksInYear(y) THEN [year |-> y + 1, week |-> 1]
    ELSE [year |-> y, week |-> w]

\* mutant: an unparseable date gets a week of its own
IsoWeekOrZero(date_str) ==
    LET dt == ParseDate(date_str) IN
    IF dt = NoDate THEN "0000-W00"
    ELSE LET iso == IsoCalendar(dt.y, dt.m, dt.d) IN
         ToString(iso.year) \o "-W"
            \o (IF iso.week < 10 THEN "0" ELSE "") \o ToString(iso.week)

\* _iso_week(date_str): "2026-W08", or None
IsoWeek(date_str) ==
    LET dt == ParseDate(date_str) IN
    IF dt = NoDate THEN None
    ELSE LET iso == IsoCalendar(dt.y, dt.m, dt.d) IN
         ToString(iso.year) \o "-W"
            \o (IF iso.week < 10 THEN "0" ELSE "") \o ToString(iso.week)

-----------------------------------------------------------------------------
(* trends.py: run_trends *)

RECURSIVE SortedSet(_)
\* sorted(S) for a set of strings
SortedSet(S) ==
    IF S = {} THEN <<>>
    ELSE LET least == CHOOSE x \in S : \A y \in S : ~StrLess(y, x)
         IN  <<least>> \o SortedSet(S \ {least})

\* the weeks of the dated insights, sorted: sorted(by_week.keys())
WeeksSorted(list) ==
    LET weeks == {IsoWeek(Get(list[n], "post_date", "")) : n \in DOMAIN list} \ {None}
    IN  SortedSet(weeks)

\* by_week[week], as positions in the list
PostsOf(list, week) ==
    {n \in DOMAIN list : IsoWeek(Get(list[n], "post_date", "")) = week}

\* weekly_metrics[week]["companies"].get(name, 0), and the same for the tags
CountIn(list, week, field, name) ==
    Cardinality(UNION {{<<n, k>> : k \in {j \in DOMAIN Get(list[n], field, <<>>) :
                                              Get(list[n], field, <<>>)[j] = name}}
                       : n \in PostsOf(list, week)})

\* the keys of weekly_metrics[week]["companies"] or ["tags"]
NamesIn(list, week, field) ==
    UNION {Range(Get(list[n], field, <<>>)) : n \in PostsOf(list, week)}

signal_names == <<"buyer_voice", "founder_voice", "feature_request", "competitive_intel">>

\* weekly_metrics[week]["signals"][sig]
SignalCount(list, week, sig) ==
    Cardinality({n \in PostsOf(list, week) : Get(list[n], "is_" \o sig, FALSE)})

HistoryCap == 12
RecentWeeks == 4

\* seq[-n:]
LastN(seq, n) == IF Len(seq) <= n THEN seq ELSE SubSeq(seq, Len(seq) - n + 1, Len(seq))

\* the volume_trend entries, one for each week
VolumeTrend(list, weeks) ==
    [i \in DOMAIN weeks |->
        LET cur  == Cardinality(PostsOf(list, weeks[i]))
            prev == IF i > 1 THEN Cardinality(PostsOf(list, weeks[i - 1])) ELSE 0
            d    == ComputeDeltas(cur, prev)
        IN  [week |-> weeks[i], count |-> cur, delta_pct |-> d.delta,
             direction |-> d.direction]]

\* one entry of company_trends, tag_trends or signal_trends; counts[i] is
\* the count of the series in weeks[i]
SeriesTrend(weeks, counts) ==
    LET recent  == LastN(weeks, RecentWeeks)
        history == [i \in DOMAIN weeks |-> [week |-> weeks[i], count |-> counts[i]]]
        d       == IF Len(recent) >= 2
                   THEN ComputeDeltas(counts[Len(weeks)], counts[Len(weeks) - 1])
                   ELSE [delta |-> 0, direction |-> "flat"]
    IN  [history      |-> LastN(history, HistoryCap),
         latest_count |-> IF history # <<>> THEN history[Len(history)].count ELSE 0,
         delta_pct    |-> d.delta,
         direction    |-> d.direction]

\* mutant: a trend for every name of every week
NamedTrendsAllWeeks(list, weeks, field) ==
    LET names  == UNION {NamesIn(list, weeks[i], field) : i \in DOMAIN weeks}
        sorted == SortedSet(names)
    IN  [n \in DOMAIN sorted |->
            [key |-> sorted[n],
             val |-> SeriesTrend(weeks, [i \in DOMAIN weeks |->
                                            CountIn(list, weeks[i], field, sorted[n])])]]

\* company_trends or tag_trends: a dict filled in the order of sorted(names)
NamedTrends(list, weeks, field) ==
    LET recent == LastN(weeks, RecentWeeks)
        names  == UNION {NamesIn(list, recent[i], field) : i \in DOMAIN recent}
        sorted == SortedSet(names)
    IN  [n \in DOMAIN sorted |->
            [key |-> sorted[n],
             val |-> SeriesTrend(weeks, [i \in DOMAIN weeks |->
                                            CountIn(list, weeks[i], field, sorted[n])])]]

\* signal_trends, in the order of signal_names
SignalTrends(list, weeks) ==
    [n \in DOMAIN signal_names |->
        [key |-> signal_names[n],
         val |-> SeriesTrend(weeks, [i \in DOMAIN weeks |->
                                        SignalCount(list, weeks[i], signal_names[n])])]]

Abs(x) == IF x < 0 THEN -x ELSE x

\* the entries appended to rising or fading for the trends of one type
Movers(trends, type, direction) ==
    LET hits == SelectSeq(trends, LAMBDA t : t.val.direction = direction)
    IN  [n \in DOMAIN hits |->
            [name |-> hits[n].key, type |-> type, delta |-> hits[n].val.delta_pct]]

\* mutant: the lists are sorted by the signed delta
SortByDelta(seq) ==
    LET ranked == SortByRankDesc([n \in DOMAIN seq |->
                      [item |-> seq[n], rank |-> seq[n].delta]])
    IN  [n \in DOMAIN ranked |-> ranked[n].item]

\* list.sort(key=lambda x: abs(x["delta"]), reverse=True)
SortByMagnitude(seq) ==
    LET ranked == SortByRankDesc([n \in DOMAIN seq |->
                      [item |-> seq[n], rank |-> Abs(seq[n].delta)]])
    IN  [n \in DOMAIN ranked |-> ranked[n].item]

\* run_trends returned {} without writing
EmptyTrends ==
    [saved |-> FALSE, weeks |-> <<>>, volume_trend |-> <<>>, company_trends |-> <<>>,
     tag_trends |-> <<>>, signal_trends |-> <<>>, rising |-> <<>>, fading |-> <<>>]

\* run_trends() on the loaded list (generated_at left out); delta_pct is
\* held in tenths of a percent
RunTrendsOf(list) ==
    LET weeks     == WeeksSorted(list)
        companies == NamedTrends(list, weeks, "companies_mentioned")
        tags      == NamedTrends(list, weeks, "entity_tags")
    IN  IF weeks = <<>> THEN EmptyTrends
        ELSE [saved          |-> TRUE,
              weeks          |-> weeks,
              volume_trend   |-> VolumeTrend(list, weeks),
              company_trends |-> companies,
              tag_trends     |-> tags,
              signal_trends  |-> SignalTrends(list, weeks),
              rising |-> SortByMagnitude(Movers(companies, "company", "rising")
                                         \o Movers(tags, "tag", "rising")),
              fading |-> SortByMagnitude(Movers(companies, "company", "fading")
                                         \o Movers(tags, "tag", "fading"))]

MaxTrendSignals == 8

\* enriched signals of four weeks, one of them of the last days of December
\* that belong to the first ISO week of the next year, and signals whose
\* post_date is empty or no date of the calendar
TrendRows == <<
    <<"2026-01-05", <<"Bolt">>,             <<"company_mention", "complaint">>, TRUE>>,
    <<"2026-01-11", <<"Bolt", "Profound">>, <<"company_mention">>,              FALSE>>,
    <<"2026-01-12", <<"Bolt">>,             <<"company_mention", "praise">>,    TRUE>>,
    <<"2026-01-13", <<>>,                   <<"question">>,                     FALSE>>,
    <<"2025-12-29", <<"Profound">>,         <<"company_mention">>,              FALSE>>,
    <<"",           <<"Bolt">>,             <<"company_mention">>,              TRUE>>,
    <<"2026-02-30", <<>>,                   <<"complaint">>,                    FALSE>>,
    <<"2026-01-19", <<"Bolt">>,             <<"company_mention">>,              FALSE>>,
    <<"2026-01-26", <<"Profound">>,         <<"company_mention", "praise">>,    TRUE>>
>>

\* the n-th enriched signal run_trends loads
TrendSignal(n) ==
    [post_id |-> "t" \o ToString(n), post_date |-> TrendRows[n][1],
     companies_mentioned |-> TrendRows[n][2], entity_tags |-> TrendRows[n][3],
     is_buyer_voice |-> TrendRows[n][4], is_founder_voice |-> FALSE,
     is_feature_request |-> FALSE, is_competitive_intel |-> FALSE,
     sentiment |-> "neutral", source |-> "Reddit",
     title |-> "AEO weekly digest", text |-> "hello", url |-> ""]

RECURSIVE PickTrend(_, _)
\* the signals numbered in S, among the first n, in their order
PickTrend(S, n) ==
    IF n = 0 THEN <<>>
    ELSE PickTrend(S, n - 1) \o (IF n \in S THEN <<TrendSignal(n)>> ELSE <<>>)

TrendsStart ==
    /\ \E S \in SUBSET (1..MaxTrendSignals) : insights = PickTrend(S, MaxTrendSignals)
    /\ opportunity_data = NotBuilt /\ export_opp_data = NotBuilt
    /\ clusters = NotClustered
    /\ trend_data = NoTrends

\* one call of run_trends on data/enriched_insights.json
RunTrends ==
    /\ trend_data = NoTrends
    /\ trend_data' = RunTrendsOf(insights)

-----------------------------------------------------------------------------
(* Signals without a date in the trends, the clusters and the opportunities *)

MaxUndated == 5

\* the post_date of the signals: dates, the empty string the scrapers store
\* for an item without a timestamp, texts that are no date of the calendar,
\* and None for a record without the key
UndatedDates == <<"2026-01-05", "", "2026-02-30", None, "2026-01-12", "05/01/2026">>

\* the n-th enriched signal: OppSignal(n) with the n-th post_date
UndatedSignal(n) ==
    LET s == OppSignal(n)
        d == UndatedDates[((n - 1) % Len(UndatedDates)) + 1]
    IN  IF d = None THEN [k \in DOMAIN s \ {"post_date"} |-> s[k]]
        ELSE [s EXCEPT !.post_date = d]

RECURSIVE PickUndated(_, _)
\* the signals numbered in S, among the first n, in their order
PickUndated(S, n) ==
    IF n = 0 THEN <<>>
    ELSE PickUndated(S, n - 1) \o (IF n \in S THEN <<UndatedSignal(n)>> ELSE <<>>)

\* an enriched file, sorted as run_enrichment saves it
UndatedStart ==
    /\ \E S \in SUBSET (1..MaxUndated) :
          insights = SortByDateDesc(PickUndated(S, MaxUndated))
    /\ opportunity_data = NotBuilt /\ export_opp_data = NotBuilt
    /\ clusters = NotClustered
    /\ trend_data = NoTrends

-----------------------------------------------------------------------------
(* run_trends on enriched files of many weeks *)

MaxOldWeeks == 11
MaxRecent == 4

\* the Mondays of the weeks 2025-W52 back to 2025-W40
OldMondays == <<"2025-12-22", "2025-12-15", "2025-12-08", "2025-12-01", "2025-11-24",
                "2025-11-17", "2025-11-10", "2025-11-03", "2025-10-27", "2025-10-20",
                "2025-10-13", "2025-10-06", "2025-09-29">>

\* the signal of the j-th week before the weeks of TrendRows
OldSignal(j) ==
    [post_id |-> "w" \o ToString(j), post_date |-> OldMondays[j],
     companies_mentioned |-> IF j % 2 = 1 THEN <<"Go">> ELSE <<"Bolt", "Go">>,
     entity_tags |-> IF j % 3 = 0 THEN <<"company_mention", "question">>
                     ELSE <<"company_mention">>,
     is_buyer_voice |-> j % 2 = 0, is_founder_voice |-> FALSE,
     is_feature_request |-> FALSE, is_competitive_intel |-> FALSE,
     sentiment |-> "neutral", source |-> "Reddit",
     title |-> "AEO weekly digest", text |-> "hello", url |-> ""]

\* an enriched file: some of the first signals of TrendRows and one signal
\* for each of the k weeks before them, sorted as run_enrichment saves it
HistoryStart ==
    /\ \E S \in SUBSET (1..MaxRecent) : \E k \in 0..MaxOldWeeks :
          insights = SortByDateDesc(PickTrend(S, MaxRecent)
                                    \o [j \in 1..k |-> OldSignal(j)])
    /\ opportunity_data = NotBuilt /\ export_opp_data = NotBuilt
    /\ clusters = NotClustered
    /\ trend_data = NoTrends

-----------------------------------------------------------------------------
(* Whole runs and a run log of many entries *)

MaxLogRuns == 2
MaxClock == 3

\* the stages a run of the model fails in
FailStages == {"scrape", "trends"}

\* completed_at of the entries of earlier runs
PastStamps == <<"2025-12-30T12:00:00", "2025-12-31T00:20:00.000500">>

\* the run log n earlier runs left: all of them failed but the c-th, if any
PastLog(n, c) ==
    [i \in 1..n |->
        LogEntry("full", IF i = c THEN "completed" ELSE "failed",
                 IF i = c THEN None ELSE "disk full", None, 0,
                 PastStamps[IF i < n THEN 1 ELSE 2])]

\* logs of no entry, of one entry less than the cap and of as many as the cap
PastLogs ==
    {PastLog(n, c) : n \in {0, LogCap - 1, LogCap}, c \in {0, 1, LogCap - 1, LogCap}}

LogStart ==
    /\ pc = "idle" /\ entry = None /\ skipScrape = FALSE /\ runNo = 0
    /\ since_date = None /\ new_posts = 0
    /\ files = [f \in OutputFiles |-> NoFile]
    /\ runLog \in PastLogs
    /\ status = None /\ error = None /\ ran = <<>>
    /\ raised = NoRaise /\ atStart = [f \in OutputFiles |-> NoFile]
    /\ logAtStart = <<>> /\ observed = [file |-> None, content |-> NoFile]
    /\ now \in 0..MaxClock

\* the stages a run enters when it raises in failAt (None: in no stage)
StagesEntered(skip, failAt) ==
    LET all  == IF skip THEN Tail(Stages) ELSE Stages
        last == IF failAt = None THEN Len(all)
                ELSE CHOOSE n \in DOMAIN all : all[n] = failAt
    IN  SubSeq(all, 1, last)

\* a run from its first line to its return: the stages up to the one that
\* raises save their files, the entry is appended and the log trimmed
WholeRun(from, since, skip, failAt, msg) ==
    LET entered == StagesEntered(skip, failAt)
        saved   == {OutputOf(s) : s \in Range(entered) \ {"scrape", failAt}}
        st      == IF failAt = None THEN "completed" ELSE "failed"
        posts   == IF "scrape" \in Range(entered) \ {failAt} THEN 2
                   ELSE IF skip /\ "enrich" \in Range(entered) \ {failAt} THEN 1 ELSE 0
    IN  /\ pc = "idle"
        /\ runNo < MaxLogRuns
        /\ runNo' = runNo + 1
        /\ entry' = from
        /\ since_date' = since
        /\ skipScrape' = skip
        /\ ran' = entered
        /\ raised' = IF failAt = None THEN NoRaise ELSE [stage |-> failAt, msg |-> msg]
        /\ status' = st
        /\ error' = IF failAt = None THEN None ELSE msg
        /\ new_posts' = posts
        /\ atStart' = files
        /\ files' = [f \in OutputFiles |->
                        IF f \in saved
                        THEN [exists |-> TRUE, run |-> runNo + 1, chunks |-> DocChunks]
                        ELSE files[f]]
        /\ logAtStart' = runLog
        /\ runLog' = TrimLog(Append(runLog,
                        LogEntry(IF since # None THEN "incremental" ELSE "full",
                                 st, IF failAt = None THEN None ELSE msg, since, posts,
                                 IsoNow(now + 1))))
        /\ now' = now + 1
        /\ UNCHANGED <<pc, observed>>

\* run_pipeline_incremental() as a whole
ScheduledRun ==
    \E failAt \in {None} \cup FailStages :
        WholeRun("scheduler", LastRunDate(runLog), FALSE, failAt, "disk full")

\* run_pipeline(since_date, skip_scrape) as a whole
ManualRun ==
    \E since \in {None, "2026-01-01"} : \E skip \in BOOLEAN :
        \E failAt \in {None, "trends"} :
            WholeRun("run_pipeline", since, skip, failAt, "bad record")

-----------------------------------------------------------------------------
(* An incremental run on top of the enriched file of an earlier run *)

\* the scraped posts of the earlier, full run
EarlierPosts ==
    <<[post_id |-> "e1", title |-> "Weekly SEO roundup", text |-> "llm ranking tips",
       source |-> "Reddit", url |-> "https://x.io/e1", post_date |-> "2025-12-29"],
      [post_id |-> "e2", title |-> "Bolt review roundup", text |-> "great tool",
       source |-> "G2", url |-> "https://x.io/e2", post_date |-> "2026-01-12"]>>

\* what the scraped files hold when run_enrichment loads them: posts the
\* scrapers wrote in this run, and posts of a file a scraper left as it was
IncrementalPosts ==
    {[post_id |-> "b1", title |-> "Weekly SEO roundup", text |-> "llm ranking tips",
      source |-> "Reddit", url |-> "https://x.io/1", post_date |-> "2026-01-05"],
     [post_id |-> "b2", title |-> "Bolt review roundup", text |-> "great tool",
      source |-> "G2", url |-> "https://x.io/2", post_date |-> "2026-01-12"],
     [post_id |-> "b7", title |-> "Honest tool review", text |-> "seoul trip",
      source |-> "Reddit", url |-> "https://x.io/7", post_date |-> "2025-12-29"],
     [post_id |-> "b8", title |-> "AEO pricing gripes", text |-> "too expensive",
      source |-> "Reddit", url |-> "https://x.io/8", post_date |-> ""],
     [post_id |-> "b9", title |-> "LLM market shift", text |-> "ai search market",
      source |-> "Reddit", url |-> "https://x.io/9"],
     [post_id |-> "b10", title |-> "Profound AEO launch", text |-> "ai search tool",
      source |-> "Reddit", url |-> "https://x.io/10", post_date |-> "2026-01-19"]}

IncrementalSince == {"2026-01-05", "2026-01-13"}

\* the enriched file is the one the earlier run wrote
IncrementalStart ==
    /\ candidate = NoPost /\ verdict = NoVerdict
    /\ all_posts \in DistinctLists(IncrementalPosts, MaxBatch)
    /\ batch = NoBatch
    /\ insights = RunEnrichmentOf(EarlierPosts, None, LoadCompanies(CompaniesData)).output
    /\ opportunity_data = NotBuilt /\ export_opp_data = NotBuilt
    /\ clusters = NotClustered
    /\ trend_data = NoTrends

\* step 2 of the run: run_enrichment(since_date), which opens the enriched
\* file for writing only after the early returns
IncrementalEnrichment ==
    /\ batch = NoBatch
    /\ \E since \in IncrementalSince :
          batch' = RunEnrichmentOf(all_posts, since, LoadCompanies(CompaniesData))
    /\ insights' = IF batch'.saved THEN batch'.output ELSE insights
    /\ UNCHANGED <<candidate, verdict, all_posts, opportunity_data, export_opp_data,
                   clusters, trend_data>>

\* step 4 of the run
IncrementalTrends ==
    /\ batch # NoBatch /\ ~batch.raised
    /\ RunTrends
    /\ UNCHANGED <<gateVars, viewVars>>

\* step 5 of the run
IncrementalClustering ==
    /\ trend_data # NoTrends
    /\ RunClustering
    /\ UNCHANGED <<gateVars, trend_data>>

-----------------------------------------------------------------------------
(* discover.py: run_discovery *)

SKIP_DOMAINS ==
    {"reddit.com", "old.reddit.com", "www.reddit.com",
     "news.ycombinator.com", "ycombinator.com",
     "twitter.com", "x.com",
     "youtube.com", "youtu.be",
     "google.com", "news.google.com",
     "facebook.com", "instagram.com", "tiktok.com",
     "linkedin.com", "medium.com", "substack.com",
     "github.com", "gitlab.com",
     "producthunt.com", "g2.com",
     "imgur.com", "i.redd.it", "v.redd.it",
     "bit.ly", "t.co", "goo.gl",
     "en.wikipedia.org", "wikipedia.org",
     "web.archive.org"}

TOOL_PATTERNS ==
    {"saas", "platform", "tool", "software", "app", "dashboard", "analytics", "suite"}

NEWSLETTER_PATTERNS ==
    {"newsletter", "weekly", "digest", "roundup", "briefing", "recap", "subscribe",
     "inbox"}

COMMUNITY_PATTERNS ==
    {"forum", "community", "slack", "discord", "group", "subreddit", "circle"}

\* how-?to is written out as its two texts
BLOG_PATTERNS ==
    {"blog", "article", "post", "guide", "tutorial", "howto", "how-to", "resource"}

GEO_TERMS ==
    {"geo", "aeo", "ai search", "ai visibility", "generative engine",
     "answer engine", "llm optimization", "brand visibility",
     "share of voice", "share of answer", "seo", "content optimization",
     "structured data", "schema markup", "ai overview"}

\* the characters that end a URL in r"https?://[^\s\)\]\"'<>,]+"
UrlStop == {" ", "\n", "\t", ")", "]", "\"", "'", "<", ">", ","}

RECURSIVE UrlEnd(_, _)
\* the last position of the run of URL characters that starts at i
UrlEnd(text, i) ==
    IF i <= Len(text) /\ Char(text, i) \notin UrlStop THEN UrlEnd(text, i + 1)
    ELSE i - 1

\* the length of https?:// matched at i, 0 when it does not match
SchemeAt(text, i) ==
    IF MatchAt(text, "http://", i) THEN 7
    ELSE IF MatchAt(text, "https://", i) THEN 8
    ELSE 0

RECURSIVE FindUrls(_, _)
\* re.findall of the URL pattern from position i on
FindUrls(text, i) ==
    IF i > Len(text) THEN <<>>
    ELSE LET k == SchemeAt(text, i)
             e == UrlEnd(text, i + k)
         IN  IF k > 0 /\ e >= i + k
             THEN <<SubSeq(text, i, e)>> \o FindUrls(text, e + 1)
             ELSE FindUrls(text, i + 1)

SchemeChars == LowerChars \cup UpperChars \cup DigitChars \cup {"+", "-", "."}

\* the position of the colon that ends the scheme of a URL, 0 without scheme
SchemeColon(url) ==
    LET colons == {i \in 1..Len(url) : Char(url, i) = ":"}
        i      == IF colons = {} THEN 0 ELSE CHOOSE c \in colons : \A d \in colons : c <= d
    IN  IF /\ i > 1
           /\ Char(url, 1) \in LowerChars \cup UpperChars
           /\ \A j \in 1..(i - 1) : Char(url, j) \in SchemeChars
        THEN i ELSE 0

\* urlparse(url).netloc: what follows the // after the scheme, up to the
\* first of / ? #
Netloc(url) ==
    LET rest == SubSeq(url, SchemeColon(url) + 1, Len(url))
        ends == {i \in 3..Len(rest) : Char(rest, i) \in {"/", "?", "#"}}
        stop == IF ends = {} THEN Len(rest) + 1
                ELSE CHOOSE e \in ends : \A f \in ends : e <= f
    IN  IF MatchAt(rest, "//", 1) THEN SubSeq(rest, 3, stop - 1) ELSE ""

\* urlparse raises ValueError on a netloc with one bracket only
UrlParseRaises(url) ==
    Contains(Netloc(url), "[") # Contains(Netloc(url), "]")

RECURSIVE LStripWww(_)
\* str.lstrip("www."): leading characters w and . are removed, one by one
LStripWww(s) == IF Len(s) > 0 /\ Char(s, 1) \in {"w", "."}
                THEN LStripWww(SubSeq(s, 2, Len(s))) ELSE s

\* urlparse(url).netloc.lower().lstrip("www.")
DomainOf(url) == LStripWww(Lower(Netloc(url)))

\* the test a domain passes before it is added
DomainAdded(url) ==
    /\ ~UrlParseRaises(url)
    /\ DomainOf(url) # ""
    /\ Contains(DomainOf(url), ".")
    /\ DomainOf(url) \notin SKIP_DOMAINS

\* _extract_domains(text)
ExtractDomains(text) ==
    {DomainOf(u) : u \in {v \in Range(FindUrls(text, 1)) : DomainAdded(v)}}

\* domains_in_text of an insight, the domain of its own URL included
DomainsInText(insight) ==
    LET url == Get(insight, "url", "")
    IN  ExtractDomains(Get(insight, "text", ""))
           \cup (IF url # "" /\ DomainAdded(url) THEN {DomainOf(url)} ELSE {})

\* _classify_source(domain, context_text), as the set it collects
ClassifySource(domain, context_text) ==
    LET combined == Lower(domain \o " " \o context_text)
        types    == (IF AnyWordSearch(combined, TOOL_PATTERNS) THEN {"tool"} ELSE {})
                    \cup (IF AnyWordSearch(combined, NEWSLETTER_PATTERNS)
                          THEN {"newsletter"} ELSE {})
                    \cup (IF AnyWordSearch(combined, COMMUNITY_PATTERNS)
                          THEN {"community"} ELSE {})
                    \cup (IF AnyWordSearch(combined, BLOG_PATTERNS) THEN {"blog"} ELSE {})
    IN  IF types = {} THEN {"unknown"} ELSE types

\* _is_geo_relevant(text)
IsGeoRelevant(text) == AnyContains(Lower(text), GEO_TERMS)

\* the default of domain_data
NewDomainData ==
    [count |-> 0, first_seen |-> "", last_seen |-> "", types |-> {},
     sample_urls |-> <<>>, contexts |-> <<>>, geo_relevant |-> FALSE]

\* the body of "for domain in domains_in_text" for one domain
CountDomain(domain_data, domain, insight, known) ==
    IF domain \in known THEN domain_data
    ELSE LET text    == Get(insight, "text", "")
             url     == Get(insight, "url", "")
             date    == Get(insight, "post_date", "")
             d       == IF DictHas(domain_data, domain) THEN DictGet(domain_data, domain)
                        ELSE NewDomainData
             snippet == Strip(Prefix(text, 200))
         IN  DictPut(domain_data, domain,
                [count        |-> d.count + 1,
                 first_seen   |-> IF d.first_seen = ""
                                     \/ (date # "" /\ StrLess(date, d.first_seen))
                                  THEN date ELSE d.first_seen,
                 last_seen    |-> IF d.last_seen = ""
                                     \/ (date # "" /\ StrLess(d.last_seen, date))
                                  THEN date ELSE d.last_seen,
                 types        |-> d.types \cup ClassifySource(domain, text),
                 geo_relevant |-> d.geo_relevant \/ IsGeoRelevant(text),
                 sample_urls  |-> IF Len(d.sample_urls) < 3 /\ url # ""
                                  THEN Append(d.sample_urls, url) ELSE d.sample_urls,
                 contexts     |-> IF Len(d.contexts) < 2 /\ snippet # ""
                                  THEN Append(d.contexts, snippet) ELSE d.contexts])

RECURSIVE CountDomains(_, _, _, _)
\* the loop over the domains of one insight, in the order of its iteration
CountDomains(domain_data, domains, insight, known) ==
    IF domains = <<>> THEN domain_data
    ELSE CountDomains(CountDomain(domain_data, Head(domains), insight, known),
                      Tail(domains), insight, known)

RECURSIVE ScanInsights(_, _, _, _)
\* for insight in insights: ...; iter lists the domains in the order in which
\* the iteration of a set yields them, which string hashing decides anew in
\* every process
ScanInsights(domain_data, list, known, iter) ==
    IF list = <<>> THEN domain_data
    ELSE ScanInsights(
            CountDomains(domain_data,
                         SelectSeqBy(iter, DomainsInText(Head(list))),
                         Head(list), known),
            Tail(list), known, iter)

\* the list discovered after its sort (discovered_at left out)
Discovered(list, known, iter) ==
    LET dd     == ScanInsights(<<>>, list, known, iter)
        sorted == SortByRankDesc([n \in DOMAIN dd |->
                      [key |-> dd[n].key, val |-> dd[n].val, rank |-> dd[n].val.count]])
    IN  [n \in DOMAIN sorted |->
            [domain        |-> sorted[n].key,
             mention_count |-> sorted[n].val.count,
             first_seen    |-> sorted[n].val.first_seen,
             last_seen     |-> sorted[n].val.last_seen,
             source_types  |-> SortedSet(sorted[n].val.types),
             geo_relevant  |-> sorted[n].val.geo_relevant,
             sample_urls   |-> sorted[n].val.sample_urls,
             contexts      |-> sorted[n].val.contexts,
             status        |-> "suggested"]]

\* existing_map[domain]: of two entries of one domain the later one
ExistingMap(old_list, domain) ==
    old_list[Max({n \in DOMAIN old_list : old_list[n].domain = domain})]

\* mutant: the status of the new scan is kept
MergedUndecided(src, old) ==
    [src EXCEPT !.mention_count = Max({src.mention_count, Get(old, "mention_count", 0)})]

\* the body of "if domain in existing_map"
Merged(src, old) ==
    LET decided == IF Get(old, "status", None) \in {"approved", "rejected"}
                   THEN [src EXCEPT !.status = old.status] ELSE src
    IN  [decided EXCEPT !.mention_count =
            Max({src.mention_count, Get(old, "mention_count", 0)})]

\* the list merged: the new scan, then the old entries it did not find
MergeSources(discovered, old_list) ==
    [n \in DOMAIN discovered |->
        IF \E m \in DOMAIN old_list : old_list[m].domain = discovered[n].domain
        THEN Merged(discovered[n], ExistingMap(old_list, discovered[n].domain))
        ELSE discovered[n]]
    \o SelectSeq(old_list,
                 LAMBDA o : \A n \in DOMAIN discovered : discovered[n].domain # o.domain)

MaxDiscoveries == 2

\* the insights of the enriched file that run_discovery reads: texts with
\* and without URLs, the post's own URL, and its date
DiscoverySignals ==
    <<[post_id |-> "d1", post_date |-> "2026-01-19", url |-> "https://geo.io/a",
       text |-> "app (http://www.wa.io/x, https://Geo.io)"],
      [post_id |-> "d2", post_date |-> "2026-01-12", url |-> "https://x.com/r/1",
       text |-> "digest https://aeo.dev?r=1 HTTP://c.io"],
      [post_id |-> "d3", post_date |-> "", url |-> "https://www.geo.io",
       text |-> " seo forum http://[ab https://lh/x "]>>

\* config/sources.json: the domains of its news feeds
KnownSets == {{}, {"aeo.dev"}}

\* the enriched files: the signals numbered in a set, newest first
DiscoveryFiles ==
    {SelectSeqBy(DiscoverySignals, {DiscoverySignals[n] : n \in S})
        : S \in SUBSET DOMAIN DiscoverySignals}

\* the domains of the insights of a file
DomainsOfFile(list) == UNION {DomainsInText(list[n]) : n \in DOMAIN list}

\* the scans of run_discovery: the enriched file, the known domains, the
\* order of iteration, and the list discovered
DiscoveryScans ==
    UNION {{[insights |-> list, known |-> known, discovered |-> Discovered(list, known, iter)]
              : iter \in Enumerations(DomainsOfFile(list))}
             : list \in DiscoveryFiles, known \in KnownSets}

DiscoveryStart ==
    /\ insights \in DiscoveryFiles
    /\ opportunity_data = NotBuilt /\ export_opp_data = NotBuilt
    /\ clusters = NotClustered
    /\ existing = <<>> /\ discovery_runs = 0

\* one call of run_discovery on the enriched file
RunDiscovery ==
    /\ discovery_runs < MaxDiscoveries
    /\ \E scan \in DiscoveryScans :
          /\ scan.insights = insights
          /\ existing' = MergeSources(scan.discovered, existing)
    /\ discovery_runs' = discovery_runs + 1
    /\ UNCHANGED viewVars

\* the next run of run_enrichment overwrites the enriched file
EnrichedFileReplaced ==
    /\ discovery_runs < MaxDiscoveries
    /\ insights' \in DiscoveryFiles \ {insights}
    /\ UNCHANGED <<opportunity_data, export_opp_data, clusters, discVars>>

\* the user approves or rejects a stored source in the file
UserDecides ==
    /\ discovery_runs < MaxDiscoveries
    /\ \E n \in DOMAIN existing : \E st \in {"approved", "rejected"} :
          /\ existing[n].status # st
          /\ existing' = [existing EXCEPT ![n].status = st]
    /\ UNCHANGED <<viewVars, discovery_runs>>

-----------------------------------------------------------------------------
(* Specifications *)

\* the pipeline runner, its output files and the run log
Init == PipeIdle /\ EnrichIdle /\ DedupIdle /\ DeltaIdle /\ ViewIdle /\ MoreIdle

Next ==
    \/ RunPipeline /\ UNCHANGED <<enrichVars, dedupVars, deltaVars, viewVars, moreVars>>
    \/ RunPipelineIncremental /\ UNCHANGED <<enrichVars, dedupVars, deltaVars, viewVars, moreVars>>
    \/ Scrape /\ UNCHANGED <<enrichVars, dedupVars, deltaVars, viewVars, moreVars>>
    \/ OpenOutput /\ UNCHANGED <<enrichVars, dedupVars, deltaVars, viewVars, moreVars>>
    \/ DumpOutput /\ UNCHANGED <<enrichVars, dedupVars, deltaVars, viewVars, moreVars>>
    \/ ReturnWithoutOutput /\ UNCHANGED <<enrichVars, dedupVars, deltaVars, viewVars, moreVars>>
    \/ StageRaises /\ UNCHANGED <<enrichVars, dedupVars, deltaVars, viewVars, moreVars>>
    \/ LogRun /\ UNCHANGED <<enrichVars, dedupVars, deltaVars, viewVars, moreVars>>

Spec == Init /\ [][Next]_vars

\* the same runs, with the display layer loading the files at any moment
NextReader ==
    \/ Next
    \/ LoadFile /\ UNCHANGED <<enrichVars, dedupVars, deltaVars, viewVars, moreVars>>

SpecReader == Init /\ [][NextReader]_vars

\* enrich_post on single posts
InitEnrich == PipeIdle /\ EnrichStart /\ DedupIdle /\ DeltaIdle /\ ViewIdle /\ MoreIdle

NextEnrich ==
    \/ EnrichTwice /\ UNCHANGED <<pipeVars, dedupVars, deltaVars, viewVars, moreVars>>
    \/ EnrichOutput /\ UNCHANGED <<pipeVars, dedupVars, deltaVars, viewVars, moreVars>>
    \/ AddContextTerm /\ UNCHANGED <<pipeVars, dedupVars, deltaVars, viewVars, moreVars>>

SpecEnrich == InitEnrich /\ [][NextEnrich]_vars

\* the final deduplication on enriched lists
InitDedup == PipeIdle /\ EnrichIdle /\ DedupStart /\ DeltaIdle /\ ViewIdle /\ MoreIdle

NextDedup == FinalDedup /\ UNCHANGED <<pipeVars, enrichVars, deltaVars, viewVars, moreVars>>

SpecDedup == InitDedup /\ [][NextDedup]_vars

\* _compute_deltas on pairs of counts
InitDeltas == PipeIdle /\ EnrichIdle /\ DedupIdle /\ DeltaStart /\ ViewIdle /\ MoreIdle

NextDeltas == CallComputeDeltas /\ UNCHANGED <<pipeVars, enrichVars, dedupVars, viewVars, moreVars>>

SpecDeltas == InitDeltas /\ [][NextDeltas]_vars

\* the opportunity records built from enriched lists
InitOpportunity == PipeIdle /\ EnrichIdle /\ DedupIdle /\ DeltaIdle /\ OpportunityStart /\ MoreIdle

NextOpportunity ==
    \/ BuildRoadmap /\ UNCHANGED <<pipeVars, enrichVars, dedupVars, deltaVars, moreVars>>
    \/ BuildExport /\ UNCHANGED <<pipeVars, enrichVars, dedupVars, deltaVars, moreVars>>

SpecOpportunity == InitOpportunity /\ [][NextOpportunity]_vars

\* run_clustering on enriched lists
InitClustering == PipeIdle /\ EnrichIdle /\ DedupIdle /\ DeltaIdle /\ ClusteringStart /\ MoreIdle

NextClustering == RunClustering /\ UNCHANGED <<pipeVars, enrichVars, dedupVars, deltaVars, moreVars>>

SpecClustering == InitClustering /\ [][NextClustering]_vars

-----------------------------------------------------------------------------
(* Properties *)

\* the records of the enriched list that the deduplicated output holds,
\* by their position in the input
Survives(n) == enriched[n] \in Range(deduped)

\* the positions of the input records whose URL normalizes to that of n
UrlGroup(n) ==
    {m \in DOMAIN enriched : NormalizeUrl(enriched[m]) = NormalizeUrl(enriched[n])}

\* C1: after the final deduplication, of any two input signals whose URLs
\* are non-empty and equal after trimming whitespace and stripping trailing
\* slashes, at most one is in the deduplicated output.
C1_UrlUnique ==
    deduped # NotRun =>
        \A a, b \in DOMAIN enriched :
            (/\ a # b
             /\ NormalizeUrl(enriched[a]) # ""
             /\ b \in UrlGroup(a))
            => ~(Survives(a) /\ Survives(b))

\* two signals whose URLs are written differently and normalize to the same
\* non-empty URL went through the deduplication, and one of them is kept
C1_Witness ==
    /\ deduped # NotRun
    /\ \E a, b \in DOMAIN enriched :
          /\ enriched[a].url # enriched[b].url
          /\ NormalizeUrl(enriched[a]) # ""
          /\ b \in UrlGroup(a)
          /\ Survives(a)
          /\ ~Survives(b)

\* C2: within each group of signals sharing a non-empty normalized URL, the
\* only member that can be in the deduplicated output is the one with the
\* highest len(companies_mentioned) + len(entity_tags), and among several
\* with the highest score the one that comes first in the input.
C2_KeepsRichestFirst ==
    deduped # NotRun =>
        \A a \in DOMAIN enriched :
            (NormalizeUrl(enriched[a]) # "" /\ Survives(a))
            => \A b \in UrlGroup(a) :
                  /\ Len(enriched[b].companies_mentioned) + Len(enriched[b].entity_tags)
                       <= Len(enriched[a].companies_mentioned) + Len(enriched[a].entity_tags)
                  /\ (Len(enriched[b].companies_mentioned) + Len(enriched[b].entity_tags)
                        = Len(enriched[a].companies_mentioned) + Len(enriched[a].entity_tags))
                     => a <= b

\* a URL group of three: the first member is poorer than the other two,
\* which tie for the highest score, and the earlier of these two is kept
C2_Witness ==
    /\ deduped # NotRun
    /\ Len(enriched) = 3
    /\ UrlGroup(1) = {1, 2, 3}
    /\ NormalizeUrl(enriched[1]) # ""
    /\ Score(enriched[1]) < Score(enriched[2])
    /\ Score(enriched[2]) = Score(enriched[3])
    /\ enriched[2].entity_tags # enriched[3].entity_tags
    /\ Survives(2)
    /\ ~Survives(1) /\ ~Survives(3)

\* C4: _compute_deltas returns flat for 0 after 0, new for a positive count
\* after 0, and otherwise rising iff 100*(current-prior) > 20*prior, fading
\* iff 100*(current-prior) < -20*prior, stable in every other case; every
\* pair of counts gets exactly one of the five directions.
C4_Classification ==
    deltaOut # NoDelta =>
        LET up   == 100 * (current - previous) > 20 * previous
            down == 100 * (current - previous) < (-20) * previous
            d    == deltaOut.direction
        IN  /\ d \in {"flat", "new", "rising", "fading", "stable"}
            /\ d = "flat"   <=> (previous = 0 /\ current = 0)
            /\ d = "new"    <=> (previous = 0 /\ current > 0)
            /\ d = "rising" <=> (previous # 0 /\ up)
            /\ d = "fading" <=> (previous # 0 /\ down)
            /\ d = "stable" <=> (previous # 0 /\ ~up /\ ~down)

\* a count that grew by exactly 20% was classified, as stable
C4_Witness ==
    /\ deltaOut # NoDelta
    /\ previous = 10 /\ current = 12
    /\ deltaOut.direction = "stable"
    /\ deltaOut.delta = 200

\* the post as it was handed to enrich_post first (before a term was added)
FirstPost == IF postBefore # NoPost THEN postBefore ELSE post

\* the entries of alias_map that belong to a context_required company and
\* match the text of the first post, as the alias loop matches
RequiredAliasesMatched ==
    {n \in DOMAIN catalog.alias_map :
        /\ catalog.alias_map[n].val \in catalog.context_required
        /\ AliasMatched(catalog.alias_map[n].key, Lower(CombinedText(FirstPost)))}

\* the claim of C3 for the alias_map entries in S
ContextRequiredRule(S) ==
    sig1 # NoSignal =>
        \A n \in S :
            /\ ~HasGeoTerms(CombinedText(post))
                  => catalog.alias_map[n].val \notin Range(sig1.companies_mentioned)
            /\ postBefore # NoPost
                  => catalog.alias_map[n].val \in Range(sig1.companies_mentioned)

C5_ConfidenceBounded ==
    /\ opportunity_data # NotBuilt =>
          \A n \in DOMAIN opportunity_data :
              /\ 0 <= opportunity_data[n].val.confidence
              /\ opportunity_data[n].val.confidence <= 95
    /\ export_opp_data # NotBuilt =>
          \A n \in DOMAIN export_opp_data :
              /\ 0 <= export_opp_data[n].val.confidence
              /\ export_opp_data[n].val.confidence <= 95

\* both views hold a record with seven distinct sources, one of them G2,
\* whose parts add up to more than 95
C5_Witness ==
    /\ opportunity_data # NotBuilt
    /\ export_opp_data # NotBuilt
    /\ \E n \in DOMAIN opportunity_data :
          /\ opportunity_data[n].val.evidence >= 7
          /\ 30 + 6 * 7 + 15 + 10 > 95
          /\ Cardinality({s.source : s \in Range(opportunity_data[n].val.signals)}
                         \ {""}) = 7
          /\ \E s \in Range(opportunity_data[n].val.signals) : s.source = "G2"
          /\ opportunity_data[n].val.confidence = 95
          /\ \E m \in DOMAIN export_opp_data :
                /\ export_opp_data[m].key = opportunity_data[n].key
                /\ export_opp_data[m].val.confidence = 95

RECURSIVE SumCounts(_)
SumCounts(cl) == IF cl = <<>> THEN 0 ELSE Head(cl).val.count + SumCounts(Tail(cl))

\* C6: after run_clustering every signal, identified by the post_id
\* recorded in insight_ids, is in the insight_ids of exactly one cluster,
\* and the cluster counts add up to total_insights.
C6_SingleAssignment ==
    clusters # NotClustered =>
        /\ \A n \in DOMAIN insights :
              Cardinality({c \in DOMAIN clusters.clusters :
                              Get(insights[n], "post_id", "")
                                  \in Range(clusters.clusters[c].val.insight_ids)}) = 1
        /\ SumCounts(clusters.clusters) = clusters.total_insights

\* C7: two invocations of enrich_post on the same post and catalogue return
\* equal records, the post handed in is not modified, and enrich_post on
\* its own output returns that output again.
C7_Deterministic ==
    /\ [](sig1 # NoSignal => sig1 = sig2)
    /\ [](sigAgain # NoSignal => sigAgain = sig1)
    /\ [][sig1' # sig1 /\ sig1' # NoSignal => post' = post]_vars
    /\ [][sigAgain' # sigAgain /\ sigAgain' # NoSignal => sig1' = sig1]_vars

\* a post that names two companies was enriched twice, and its output was
\* enriched again
C7_Witness ==
    /\ sig1 # NoSignal
    /\ sigAgain # NoSignal
    /\ Len(sig1.companies_mentioned) = 2
    /\ sig1.is_own_brand_mention

\* the run started last has returned
Returned == pc = "idle" /\ runNo > 0

\* the run before the one started last completed
PreviousCompleted ==
    logAtStart # <<>> /\ logAtStart[Len(logAtStart)].status = "completed"

\* C8: when a stage of a run raises, every output file the previous
\* successful run produced has the same content after the failed run as
\* before it.
C8_OutputsUntouched ==
    (Returned /\ raised # NoRaise /\ PreviousCompleted) =>
        \A f \in OutputFiles :
            (Complete(atStart[f]) /\ atStart[f].run = runNo - 1)
                => files[f] = atStart[f]

\* C9: when a stage raises, the remaining stages of the run are not
\* executed, the run returns "failed" and exactly one entry, with status
\* "failed" and the exception message as error, is appended to the run log;
\* when no stage raises the appended entry has status "completed" and
\* error null.
C9_FailureIsLogged ==
    /\ pc # "idle" => runLog = logAtStart
    /\ (pc # "idle" /\ raised # NoRaise) =>
          /\ pc = "log"
          /\ ran[Len(ran)] = raised.stage
          /\ \A n \in 1..(Len(ran) - 1) : ran[n] # raised.stage
    /\ Returned =>
          /\ Len(runLog) = Len(logAtStart) + 1
          /\ SubSeq(runLog, 1, Len(logAtStart)) = logAtStart
          /\ runLog[Len(runLog)].status = status
          /\ IF raised # NoRaise
             THEN /\ status = "failed"
                  /\ ran[Len(ran)] = raised.stage
                  /\ runLog[Len(runLog)].status = "failed"
                  /\ runLog[Len(runLog)].error = raised.msg
             ELSE /\ status = "completed"
                  /\ runLog[Len(runLog)].status = "completed"
                  /\ runLog[Len(runLog)].error = None

\* the scheduler's second run failed in source discovery, after a run that
\* completed: trends and clustering did not run and the log got its entry
C9_Witness ==
    /\ Returned
    /\ entry = "scheduler"
    /\ raised.stage = "discover"
    /\ ran = <<"scrape", "enrich", "discover">>
    /\ Len(runLog) = 2
    /\ runLog[1].status = "completed"
    /\ runLog[2].status = "failed"
    /\ runLog[2].error = "disk full"

\* C10: a reader that opens an output file while a run overwrites it gets
\* the complete content of the previous run or of the new run, never an
\* empty or partly written file.
C10_ReaderSeesComplete ==
    (observed.file # None /\ observed.content.exists) => Complete(observed.content)

-----------------------------------------------------------------------------
(* Specifications of the gate, the batch, the sentiment, the trends, the deck *)

\* the Relevance Gate on single posts
InitGate == /\ PipeIdle /\ EnrichIdle /\ DedupIdle /\ DeltaIdle /\ ViewIdle
            /\ GateStart /\ SentimentIdle /\ TrendsIdle /\ DeckIdle /\ DiscoveryIdle

NextGate ==
    ApplyGate /\ UNCHANGED <<pipeVars, enrichVars, dedupVars, deltaVars, viewVars,
                             sentVars, trendVars, deckVars, discVars>>

SpecGate == InitGate /\ [][NextGate]_vars

\* run_enrichment on lists of scraped posts
InitBatch == /\ PipeIdle /\ EnrichIdle /\ DedupIdle /\ DeltaIdle /\ ViewIdle
             /\ BatchStart /\ SentimentIdle /\ TrendsIdle /\ DeckIdle /\ DiscoveryIdle

NextBatch ==
    RunEnrichment /\ UNCHANGED <<pipeVars, enrichVars, dedupVars, deltaVars, viewVars,
                                 sentVars, trendVars, deckVars, discVars>>

SpecBatch == InitBatch /\ [][NextBatch]_vars

\* _detect_sentiment on texts
InitSentiment == /\ PipeIdle /\ EnrichIdle /\ DedupIdle /\ DeltaIdle /\ ViewIdle
                 /\ GateIdle /\ SentimentStart /\ TrendsIdle /\ DeckIdle /\ DiscoveryIdle

NextSentiment ==
    CallDetectSentiment /\ UNCHANGED <<pipeVars, enrichVars, dedupVars, deltaVars,
                                       viewVars, gateVars, trendVars, deckVars, discVars>>

SpecSentiment == InitSentiment /\ [][NextSentiment]_vars

-----------------------------------------------------------------------------
(* Properties of the gate and of run_enrichment as a whole *)

\* a record whose gating or enrichment raises
BadRecord(p) == Get(p, "text", "") = None \/ Get(p, "source", "") = None

\* the loaded list without its bad records
SoundRecords == SelectSeq(all_posts, LAMBDA p : ~BadRecord(p))

\* C11: a record whose gating or enrichment raises is skipped: the call of
\* run_enrichment does not raise, and it writes the output it writes for the
\* other records alone
C11_BadRecordIsolated ==
    batch # NoBatch =>
        /\ ~batch.raised
        /\ SoundRecords # <<>> => batch.saved
        /\ batch.output =
             RunEnrichmentOf(SoundRecords, batch.since, LoadCompanies(CompaniesData)).output

\* the candidate's title after the trimming, a missing or null one being empty
TrimmedTitle ==
    IF "title" \in DOMAIN candidate /\ candidate.title # None
    THEN Strip(candidate.title) ELSE ""

\* the gate has decided on the candidate
Decided == verdict # NoVerdict

\* the candidate's text is a string, so the gate builds its combined text
HasText == Get(candidate, "text", "") # None

\* the candidate is not rejected by the rules on the title and on noise
PassesRules123 ==
    /\ HasText
    /\ Len(TrimmedTitle) >= 10
    /\ ~TitleBlocked(TrimmedTitle)
    /\ ~(ConditionalBlocked(TrimmedTitle) /\ ~HasGeoTerms(TrimmedTitle))
    /\ ~HasNoise(Lower(GateText(candidate)))

\* the whitelist rule covers the candidate
Whitelisted ==
    /\ Get(candidate, "source", "") \in {"G2", "Product Hunt"}
    /\ \E n \in DOMAIN LoadCompanies(CompaniesData).alias_map :
          LET alias == LoadCompanies(CompaniesData).alias_map[n].key IN
          Len(alias) >= 3 /\ Contains(Lower(GateText(candidate)), alias)

\* C12: a post whose title is missing, empty or shorter than 10 characters
\* after trimming is never admitted
C12_ShortTitleNeverAdmitted ==
    Decided /\ Len(TrimmedTitle) < 10 => verdict # "relevant"

\* a short title on a whitelisted source, with a company and a context term
C12_Witness ==
    /\ verdict = "excluded_hard"
    /\ Len(TrimmedTitle) < 10 /\ TrimmedTitle # ""
    /\ HasText /\ Whitelisted /\ HasGeoTerms(GateText(candidate))

\* C13: a post that passes rules 1-3, comes from a whitelisted source and
\* mentions a tracked alias of at least 3 characters is admitted
C13_WhitelistAdmits ==
    Decided /\ PassesRules123 /\ Whitelisted => verdict = "relevant"

\* such a post without any context term
C13_Witness ==
    /\ verdict = "relevant" /\ PassesRules123 /\ Whitelisted
    /\ ~HasGeoTerms(GateText(candidate))

\* C17: an admitted post has a title of at least 10 characters that matches
\* no hard-blocklist pattern, no noise phrase in its combined text, and a
\* context term in it or a whitelisted source with a tracked alias; and a
\* post that passes rules 1-3 outside the whitelist rule is admitted iff its
\* combined text has a context term
C17_AdmittedIffRules ==
    /\ verdict = "relevant" =>
          /\ HasText
          /\ Len(TrimmedTitle) >= 10
          /\ ~TitleBlocked(TrimmedTitle)
          /\ ~HasNoise(Lower(GateText(candidate)))
          /\ HasGeoTerms(GateText(candidate)) \/ Whitelisted
    /\ Decided /\ PassesRules123 /\ ~Whitelisted =>
          (verdict = "relevant" <=> HasGeoTerms(GateText(candidate)))

\* a post of a source that only resembles a whitelisted one, with an alias
\* and the letters of a short term inside a longer word: not admitted
C17_Witness ==
    /\ verdict = "excluded_no_geo" /\ PassesRules123
    /\ Get(candidate, "source", "") = "G2 Reviews"
    /\ Contains(Lower(GateText(candidate)), "bolt")
    /\ Contains(Lower(GateText(candidate)), "seo")

\* C18: a title with a conditional-blocklist brand and no context term of
\* its own is rejected, whatever the body holds; with a context term in the
\* title the conditional rule does not reject the post
C18_ConditionalNeedsTitleTerm ==
    Decided /\ ConditionalBlocked(TrimmedTitle) =>
        IF HasGeoTerms(TrimmedTitle)
        THEN verdict # "excluded_cond"
        ELSE /\ verdict # "relevant"
             /\ HasText => verdict \in {"excluded_hard", "excluded_cond"}

\* a brand title rejected although the body holds a context term
C18_Witness ==
    /\ verdict = "excluded_cond" /\ HasText
    /\ HasGeoTerms(Get(candidate, "text", "")) /\ ~HasGeoTerms(TrimmedTitle)

-----------------------------------------------------------------------------
(* Properties of _detect_sentiment *)

\* the hit counts of the two pattern sets in the sentence
PosHits == FindAllCount(Lower(sentence), POSITIVE_PATTERNS)
NegHits == FindAllCount(Lower(sentence), NEGATIVE_PATTERNS)

\* C20: the label is negative iff neg > pos, positive iff pos > neg, else
\* neutral; the justification is the multiple one exactly when the winning
\* count is at least 2, the mixed one exactly when pos = neg > 0, the
\* no-signal one exactly when pos = neg = 0
C20_SentimentRule ==
    sentimentOut # NoSentiment =>
        /\ sentimentOut[1] \in {"positive", "negative", "neutral"}
        /\ sentimentOut[1] = "negative" <=> NegHits > PosHits
        /\ sentimentOut[1] = "positive" <=> PosHits > NegHits
        /\ sentimentOut[2] = "Multiple negative expressions detected"
              <=> NegHits > PosHits /\ NegHits >= 2
        /\ sentimentOut[2] = "Multiple positive expressions detected"
              <=> PosHits > NegHits /\ PosHits >= 2
        /\ sentimentOut[2] = "Negative language outweighs positive"
              <=> NegHits > PosHits /\ NegHits < 2
        /\ sentimentOut[2] = "Positive language outweighs negative"
              <=> PosHits > NegHits /\ PosHits < 2
        /\ sentimentOut[2] = "Mixed positive and negative signals"
              <=> PosHits = NegHits /\ PosHits > 0
        /\ sentimentOut[2] = "No strong sentiment indicators"
              <=> PosHits = NegHits /\ PosHits = 0

\* two negative hits against one positive
C20_Witness ==
    /\ sentimentOut = <<"negative", "Multiple negative expressions detected">>
    /\ NegHits = 2 /\ PosHits = 1

\* the final deduplication on lists with long and short titles
InitTitleDedup == /\ PipeIdle /\ EnrichIdle /\ TitleDedupStart /\ DeltaIdle /\ ViewIdle
                  /\ MoreIdle

NextTitleDedup == FinalDedup /\ UNCHANGED <<pipeVars, enrichVars, deltaVars, viewVars, moreVars>>

SpecTitleDedup == InitTitleDedup /\ [][NextTitleDedup]_vars

-----------------------------------------------------------------------------
(* Properties of the title pass *)

\* the survivors of the URL pass in the order the title pass reads them:
\* the records of by_url, then the records without URL
PassOneSurvivors ==
    LET p == UrlPass(<<>>, <<>>, enriched)
    IN  [n \in DOMAIN p.by_url |-> p.by_url[n].val] \o p.no_url

\* the lowercased title without its non-alphanumeric characters, cut to 60
StatedTitleKey(e) ==
    LET k == KeepAlnum(Lower(e.title)) IN IF Len(k) <= 60 THEN k ELSE SubSeq(k, 1, 60)

\* C19: the title pass drops a pass-1 survivor iff its title key is longer
\* than 8 characters and equals the key of a record kept earlier; no two
\* records of the output share a key longer than 8 characters, and a record
\* with a key of 8 characters or fewer is never dropped by this pass
C19_TitlePassRule ==
    deduped # NotRun =>
        LET s == PassOneSurvivors IN
        /\ Range(deduped) \subseteq Range(s)
        /\ \A n \in DOMAIN s :
              s[n] \notin Range(deduped)
              <=> /\ Len(StatedTitleKey(s[n])) > 8
                  /\ \E m \in 1..(n - 1) :
                        /\ s[m] \in Range(deduped)
                        /\ StatedTitleKey(s[m]) = StatedTitleKey(s[n])
        /\ \A a, b \in DOMAIN deduped :
              a # b /\ Len(StatedTitleKey(deduped[a])) > 8
              => StatedTitleKey(deduped[a]) # StatedTitleKey(deduped[b])
        /\ \A n \in DOMAIN s :
              Len(StatedTitleKey(s[n])) <= 8 => s[n] \in Range(deduped)

\* a record without URL dropped for a title that agrees with the title of a
\* URL-bearing record later in the input only on the 60 characters of the
\* key
C19_Witness ==
    /\ deduped # NotRun
    /\ \E a, b \in DOMAIN enriched :
          /\ a < b
          /\ enriched[a].url = "" /\ enriched[b].url # ""
          /\ enriched[a].title # enriched[b].title
          /\ Len(KeepAlnum(Lower(enriched[a].title))) > 60
          /\ StatedTitleKey(enriched[a]) = StatedTitleKey(enriched[b])
          /\ ~Survives(a) /\ Survives(b)

\* the Build Now slide on the records of the roadmap view
InitDeck == /\ PipeIdle /\ EnrichIdle /\ DedupIdle /\ DeltaIdle
            /\ GateIdle /\ SentimentIdle /\ TrendsIdle /\ DeckStart /\ DiscoveryIdle

NextDeck ==
    \/ BuildRoadmap /\ UNCHANGED <<pipeVars, enrichVars, dedupVars, deltaVars,
                                   gateVars, sentVars, trendVars, deckVars, discVars>>
    \/ ExportBriefingDeck /\ UNCHANGED <<pipeVars, enrichVars, dedupVars, deltaVars,
                                         viewVars, gateVars, sentVars, trendVars, discVars>>

SpecDeck == InitDeck /\ [][NextDeck]_vars

-----------------------------------------------------------------------------
(* Properties of the opportunity records and of the Build Now slide *)

\* the distinct source types present among the evidence of a record
SourceTypes(od) == {s.source : s \in Range(od.signals)} \ {""}

\* the score as the confidence formula states it
StatedConfidence(od) ==
    LET D     == Cardinality(SourceTypes(od))
        extra == IF od.evidence - 1 > 0 THEN od.evidence - 1 ELSE 0
        G     == IF \E s \in Range(od.signals) : Contains(s.source, "G2") THEN 10 ELSE 0
        total == 30 + 6 * D + (IF 5 * extra < 15 THEN 5 * extra ELSE 15) + G
    IN  IF total < 95 THEN total ELSE 95

\* C15: the confidence of every opportunity record is
\* min(95, 30 + 6*D + min(15, 5*max(evidence-1, 0)) + G), in the roadmap
\* view and in the export data alike
C15_ConfidenceFormula ==
    /\ opportunity_data # NotBuilt =>
          \A n \in DOMAIN opportunity_data :
              opportunity_data[n].val.confidence = StatedConfidence(opportunity_data[n].val)
    /\ export_opp_data # NotBuilt =>
          \A n \in DOMAIN export_opp_data :
              export_opp_data[n].val.confidence = StatedConfidence(export_opp_data[n].val)
    /\ opportunity_data # NotBuilt /\ export_opp_data # NotBuilt =>
          \A n \in DOMAIN opportunity_data : \A m \in DOMAIN export_opp_data :
              export_opp_data[m].key = opportunity_data[n].key
              => export_opp_data[m].val.confidence = opportunity_data[n].val.confidence

\* both views hold a record below the cap with two source types, a G2
\* source, a signal without source and three signals
C15_Witness ==
    /\ opportunity_data # NotBuilt
    /\ export_opp_data # NotBuilt
    /\ \E n \in DOMAIN opportunity_data :
          LET od == opportunity_data[n].val IN
          /\ od.evidence = 3
          /\ Cardinality(SourceTypes(od)) = 2
          /\ \E s \in Range(od.signals) : s.source = ""
          /\ \E s \in Range(od.signals) : Contains(s.source, "G2")
          /\ od.confidence = 30 + 12 + 10 + 10
          /\ \E m \in DOMAIN export_opp_data :
                /\ export_opp_data[m].key = opportunity_data[n].key
                /\ export_opp_data[m].val.confidence = od.confidence

\* the selected companies that are in none of the three sets of a record
Uninvolved(od) ==
    {n \in DOMAIN selected_comps :
        selected_comps[n] \notin
            (od.companies_praised \cup od.companies_complained \cup od.companies_tried)}

\* C16: a theme is on the Build Now slide iff its evidence is at least 3 and
\* more than half of the selected companies are in none of its praised,
\* complained and tried sets; with an empty selection the slide lists none
C16_GapRule ==
    build_now # NoDeck =>
        /\ \A n \in DOMAIN opportunity_data :
              (\E l \in DOMAIN build_now.lines :
                    build_now.lines[l].opp = opportunity_data[n].key)
              <=> /\ opportunity_data[n].val.evidence >= 3
                  /\ 2 * Cardinality(Uninvolved(opportunity_data[n].val))
                        > Len(selected_comps)
        /\ selected_comps = <<>> => build_now.lines = <<>>

\* of two themes with enough evidence, one is listed and the other, with
\* exactly half of the selection uninvolved, is not
C16_Witness ==
    /\ build_now # NoDeck
    /\ Len(selected_comps) = 2
    /\ \E n, m \in DOMAIN opportunity_data :
          /\ opportunity_data[n].val.evidence >= 3
          /\ opportunity_data[m].val.evidence >= 3
          /\ Cardinality(Uninvolved(opportunity_data[n].val)) = 1
          /\ Cardinality(Uninvolved(opportunity_data[m].val)) = 2
          /\ \A l \in DOMAIN build_now.lines :
                build_now.lines[l].opp # opportunity_data[n].key
          /\ \E l \in DOMAIN build_now.lines :
                build_now.lines[l].opp = opportunity_data[m].key

\* run_trends on enriched lists
InitTrends == /\ PipeIdle /\ EnrichIdle /\ DedupIdle /\ DeltaIdle
              /\ GateIdle /\ SentimentIdle /\ TrendsStart /\ DeckIdle /\ DiscoveryIdle

NextTrends ==
    RunTrends /\ UNCHANGED <<pipeVars, enrichVars, dedupVars, deltaVars, viewVars,
                             gateVars, sentVars, deckVars, discVars>>

SpecTrends == InitTrends /\ [][NextTrends]_vars

-----------------------------------------------------------------------------
(* Properties of run_trends *)

\* the deltas of a dict of trends
AllFlat(trends) ==
    \A n \in DOMAIN trends :
        trends[n].val.direction = "flat" /\ trends[n].val.delta_pct = 0

\* C14: when the dated signals fall into fewer than two ISO weeks, every
\* delta run_trends emits (the volume_trend entries, the company, tag and
\* signal trends) has direction flat and delta_pct 0
C14_FewWeeksAllFlat ==
    trend_data # NoTrends /\ Len(trend_data.weeks) < 2 =>
        /\ \A n \in DOMAIN trend_data.volume_trend :
              /\ trend_data.volume_trend[n].direction = "flat"
              /\ trend_data.volume_trend[n].delta_pct = 0
        /\ AllFlat(trend_data.company_trends)
        /\ AllFlat(trend_data.tag_trends)
        /\ AllFlat(trend_data.signal_trends)

-----------------------------------------------------------------------------
(* Alias resolution *)

\* the alias occurs in the lowercased combined text of the post: between
\* word boundaries when it has at most four characters, anywhere otherwise
OccursAsStated(alias) ==
    IF Len(alias) <= 4
    THEN WordSearch(Lower(CombinedText(post)), alias)
    ELSE Contains(Lower(CombinedText(post)), alias)

\* the company of the alias is context_required and the combined text has
\* no domain-context term
Suppressed(canonical) ==
    /\ canonical \in catalog.context_required
    /\ ~HasGeoTerms(CombinedText(post))

\* the alias rule for the alias_map entries in S: companies_mentioned holds
\* the companies of the entries that occur and are not suppressed
AliasRule(S) ==
    sig1 # NoSignal =>
        Range(sig1.companies_mentioned) =
            {catalog.alias_map[n].val :
                n \in {m \in S : /\ OccursAsStated(catalog.alias_map[m].key)
                                  /\ ~Suppressed(catalog.alias_map[m].val)}}

-----------------------------------------------------------------------------
(* Signals without a parseable date *)

\* run_trends, run_clustering and the opportunity records of the dashboard
\* on the same enriched file
InitUndated == /\ PipeIdle /\ EnrichIdle /\ DedupIdle /\ DeltaIdle
               /\ GateIdle /\ SentimentIdle /\ UndatedStart /\ DeckIdle /\ DiscoveryIdle

NextUndated ==
    \/ RunTrends /\ UNCHANGED <<pipeVars, enrichVars, dedupVars, deltaVars, viewVars,
                                gateVars, sentVars, deckVars, discVars>>
    \/ RunClustering /\ UNCHANGED <<pipeVars, enrichVars, dedupVars, deltaVars, moreVars>>
    \/ BuildRoadmap /\ UNCHANGED <<pipeVars, enrichVars, dedupVars, deltaVars, moreVars>>
    \/ BuildExport /\ UNCHANGED <<pipeVars, enrichVars, dedupVars, deltaVars, moreVars>>

SpecUndated == InitUndated /\ [][NextUndated]_vars

\* the post_date of the signal is a date of the calendar written YYYY-MM-DD
Parseable(s) == ParseDate(Get(s, "post_date", "")) # NoDate

\* the ISO week a parseable signal belongs to, as text
WeekOfSignal(s) ==
    LET dt  == ParseDate(Get(s, "post_date", ""))
        iso == IsoCalendar(dt.y, dt.m, dt.d)
    IN  ToString(iso.year) \o "-W" \o (IF iso.week < 10 THEN "0" ELSE "")
           \o ToString(iso.week)

RECURSIVE SumWeekly(_)
\* the sum of the weekly totals
SumWeekly(volume) ==
    IF volume = <<>> THEN 0 ELSE Head(volume).count + SumWeekly(Tail(volume))

\* the opportunity themes one of whose keywords occurs in the signal
ThemesOf(s) ==
    {OPPORTUNITY_THEMES[t].theme : t \in
        {u \in DOMAIN OPPORTUNITY_THEMES :
            AnyContains(Lower(Get(s, "text", "") \o " " \o Get(s, "title", "")),
                        Range(OPPORTUNITY_THEMES[u].keywords))}}

\* every signal is among the signals of each theme it matches
CountedAsEvidence(data) ==
    \A n \in DOMAIN insights : \A th \in ThemesOf(insights[n]) :
        /\ DictHas(data, th)
        /\ insights[n] \in Range(DictGet(data, th).signals)

-----------------------------------------------------------------------------
(* Company and tag trends, rising and fading *)

InitHistory == /\ PipeIdle /\ EnrichIdle /\ DedupIdle /\ DeltaIdle
               /\ GateIdle /\ SentimentIdle /\ HistoryStart /\ DeckIdle /\ DiscoveryIdle

NextHistory ==
    RunTrends /\ UNCHANGED <<pipeVars, enrichVars, dedupVars, deltaVars, viewVars,
                             gateVars, sentVars, deckVars, discVars>>

SpecHistory == InitHistory /\ [][NextHistory]_vars

\* the claim of C23 for the trends of one field of the signals
TrendRule(trends, field) ==
    LET \* the week of every signal, None without a parseable date
        wk      == [n \in DOMAIN insights |->
                       IF Parseable(insights[n]) THEN WeekOfSignal(insights[n]) ELSE None]
        present == {wk[n] : n \in DOMAIN insights} \ {None}
        \* the weeks present that have fewer than k weeks present after them
        MostRecent(k) ==
            {w \in present : Cardinality({v \in present : StrLess(w, v)}) < k}
        recent1  == MostRecent(1)
        recent2  == MostRecent(2)
        recent4  == MostRecent(4)
        recent12 == MostRecent(12)
        \* the number of mentions of a name in the signals of a week
        Mentions(name, week) ==
            Cardinality(UNION {{<<n, j>> : j \in {i \in DOMAIN Get(insights[n], field, <<>>) :
                                                     Get(insights[n], field, <<>>)[i] = name}}
                               : n \in {m \in DOMAIN insights : wk[m] = week}})
        names    == UNION {Range(Get(insights[n], field, <<>>)) : n \in DOMAIN insights}
    IN  /\ {trends[n].key : n \in DOMAIN trends} =
              {name \in names : \E w \in recent4 : Mentions(name, w) > 0}
        /\ \A n, m \in DOMAIN trends : trends[n].key = trends[m].key => n = m
        /\ \A n \in DOMAIN trends :
              LET t    == trends[n].val
                  last == CHOOSE w \in recent1 : TRUE
                  prev == CHOOSE w \in recent2 \ recent1 : TRUE
                  d    == ComputeDeltas(Mentions(trends[n].key, last),
                                        Mentions(trends[n].key, prev))
              IN  /\ Cardinality(present) >= 2
                        => t.delta_pct = d.delta /\ t.direction = d.direction
                  /\ Len(t.history) <= 12
                  /\ {t.history[i].week : i \in DOMAIN t.history} = recent12
                  /\ \A i, j \in DOMAIN t.history :
                        i < j => StrLess(t.history[i].week, t.history[j].week)
                  /\ \A i \in DOMAIN t.history :
                        t.history[i].count = Mentions(trends[n].key, t.history[i].week)

\* C23: run_trends emits a trend for exactly the companies, and the tags,
\* with at least one mention in the 4 most recent weeks present in the data;
\* with two weeks or more, delta and direction of each are
\* _compute_deltas(count in the most recent week present, count in the week
\* before it among the weeks present); history holds at most 12 entries, the
\* most recent weeks in chronological order with their counts.
C23_RecentWindowAndHistoryCap ==
    trend_data # NoTrends /\ trend_data.saved =>
        /\ TrendRule(trend_data.company_trends, "companies_mentioned")
        /\ TrendRule(trend_data.tag_trends, "entity_tags")

\* thirteen weeks are present; the tag question, last seen five weeks before
\* the end, has no trend, and the history of Bolt holds the last 12 weeks
C23_Witness ==
    /\ trend_data # NoTrends /\ trend_data.saved
    /\ Len(trend_data.weeks) = 13
    /\ \E n \in DOMAIN insights : "question" \in Range(insights[n].entity_tags)
    /\ ~DictHas(trend_data.tag_trends, "question")
    /\ DictHas(trend_data.company_trends, "Bolt")
    /\ Len(DictGet(trend_data.company_trends, "Bolt").history) = 12
    /\ DictGet(trend_data.company_trends, "Bolt").history[1].week = trend_data.weeks[2]
    /\ DictGet(trend_data.company_trends, "Bolt").direction \in {"rising", "fading", "stable"}

\* the entries a list of movers must hold: one for each company trend and
\* each tag trend of the direction
MoversExpected(direction) ==
    {[name |-> trend_data.company_trends[n].key, type |-> "company",
      delta |-> trend_data.company_trends[n].val.delta_pct]
        : n \in {m \in DOMAIN trend_data.company_trends :
                    trend_data.company_trends[m].val.direction = direction}}
    \cup
    {[name |-> trend_data.tag_trends[n].key, type |-> "tag",
      delta |-> trend_data.tag_trends[n].val.delta_pct]
        : n \in {m \in DOMAIN trend_data.tag_trends :
                    trend_data.tag_trends[m].val.direction = direction}}

\* the claim of C24 for one of the two lists
MoversRule(movers, direction) ==
    /\ Range(movers) = MoversExpected(direction)
    /\ Len(movers) = Cardinality(MoversExpected(direction))
    /\ \A i, j \in DOMAIN movers :
          i < j => Abs(movers[i].delta) >= Abs(movers[j].delta)

\* C24: in the trend document the rising list holds exactly one entry for
\* every company trend and every tag trend whose direction is rising and
\* nothing else, likewise the fading list for the direction fading; series
\* that are new, stable or flat and the voice-signal series are in neither
\* list; each list is in the order of non-increasing absolute delta.
C24_RisingAndFadingLists ==
    trend_data # NoTrends /\ trend_data.saved =>
        /\ MoversRule(trend_data.rising, "rising")
        /\ MoversRule(trend_data.fading, "fading")

\* the fading list holds two entries or more while a voice-signal series is
\* rising or fading and a tag series is new or stable: these are in neither
\* list
C24_Witness ==
    /\ trend_data # NoTrends /\ trend_data.saved
    /\ Len(trend_data.fading) >= 2
    /\ \E n \in DOMAIN trend_data.signal_trends :
          trend_data.signal_trends[n].val.direction \in {"rising", "fading"}
    /\ \E n \in DOMAIN trend_data.tag_trends :
          trend_data.tag_trends[n].val.direction \in {"new", "stable"}

-----------------------------------------------------------------------------
(* The theme of a signal *)

\* the score of the n-th theme for a signal, as the claim states it
StatedScore(n, i) ==
    LET text == Lower(Get(i, "text", "") \o " " \o Get(i, "title", ""))
        r    == THEME_RULES[n]
    IN  Cardinality({k \in DOMAIN r.keywords : Contains(text, r.keywords[k])})
        + 3 * Cardinality({k \in DOMAIN r.features :
                              r.features[k] \in Range(Get(i, "features_mentioned", <<>>))})
        + 2 * Cardinality({k \in DOMAIN r.tags :
                              r.tags[k] \in Range(Get(i, "entity_tags", <<>>))})

\* the theme the claim gives a signal
StatedTheme(i) ==
    LET sc == [n \in DOMAIN THEME_RULES |-> StatedScore(n, i)] IN
    IF \A n \in DOMAIN sc : sc[n] = 0 THEN "Uncategorized"
    ELSE THEME_RULES[CHOOSE n \in DOMAIN sc :
                        /\ \A m \in DOMAIN sc : sc[m] <= sc[n]
                        /\ \A m \in 1..(n - 1) : sc[m] < sc[n]].theme

\* the themes that score the maximum for a signal
BestThemes(i) ==
    LET sc == [n \in DOMAIN THEME_RULES |-> StatedScore(n, i)] IN
    {n \in DOMAIN sc : sc[n] > 0 /\ \A m \in DOMAIN sc : sc[m] <= sc[n]}

\* C25: _match_theme scores each theme as the number of its keywords that
\* occur in the lowercased text, plus 3 for each of its features present in
\* features_mentioned, plus 2 for each of its tags present in entity_tags;
\* it returns Uncategorized iff every theme scores 0, and else the
\* first-declared of the themes with the maximal score. Seen in the
\* clusters: the insight_ids of every theme are the post_ids of the signals
\* with that theme, in their order, and a theme of no signal has no cluster.
C25_ThemeOfSignal ==
    clusters # NotClustered =>
        LET themes == [n \in DOMAIN insights |-> StatedTheme(insights[n])] IN
        \A theme \in {THEME_RULES[n].theme : n \in DOMAIN THEME_RULES} \cup {"Uncategorized"} :
            LET mine == SelectSeq([n \in DOMAIN insights |->
                                      [theme |-> themes[n],
                                       id    |-> Get(insights[n], "post_id", "")]],
                                  LAMBDA e : e.theme = theme)
            IN  IF mine = <<>> THEN ~DictHas(clusters.clusters, theme)
                ELSE /\ DictHas(clusters.clusters, theme)
                     /\ DictGet(clusters.clusters, theme).insight_ids =
                            [k \in DOMAIN mine |-> mine[k].id]

\* a signal for which three themes tie at the maximum went to the first of
\* them, and a signal with a feature and a tag of one theme went to that
\* theme
C25_Witness ==
    /\ clusters # NotClustered
    /\ \E n \in DOMAIN insights :
          /\ Cardinality(BestThemes(insights[n])) = 3
          /\ DictHas(clusters.clusters, "Tools & Measurement")
          /\ insights[n].post_id \in
                Range(DictGet(clusters.clusters, "Tools & Measurement").insight_ids)
    /\ \E n \in DOMAIN insights :
          /\ insights[n].features_mentioned = <<"pricing">>
          /\ insights[n].entity_tags = <<"complaint">>
          /\ DictHas(clusters.clusters, "User Needs & Gaps")
          /\ insights[n].post_id \in
                Range(DictGet(clusters.clusters, "User Needs & Gaps").insight_ids)

-----------------------------------------------------------------------------
(* The counters of an opportunity record *)

\* the keywords of a theme that occur in the text of a signal
KeywordsHit(theme, s) ==
    LET kws == OPPORTUNITY_THEMES[CHOOSE t \in DOMAIN OPPORTUNITY_THEMES :
                                      OPPORTUNITY_THEMES[t].theme = theme].keywords IN
    {k \in DOMAIN kws :
        Contains(Lower(Get(s, "text", "") \o " " \o Get(s, "title", "")), kws[k])}

\* the claim of C26 for the records of one view
CountersRule(data) ==
    \A n \in DOMAIN data :
        LET od == data[n].val IN
        /\ od.companies_praised \subseteq od.companies_tried
        /\ od.companies_complained \subseteq od.companies_tried
        /\ od.evidence = Len(od.signals)
        /\ od.complaints <= od.evidence
        /\ od.requests <= od.evidence
        /\ od.praise <= od.evidence
        /\ od.signals = SelectSeq(insights, LAMBDA s : KeywordsHit(data[n].key, s) # {})

\* C26: in every opportunity record, of the roadmap view and of the
\* exports, companies_praised and companies_complained are subsets of
\* companies_tried, evidence is the length of signals, complaints, requests
\* and praise are at most evidence, and a signal is in the signals of a
\* theme once whatever number of keywords of the theme it matches: signals
\* is the list of the signals that match a keyword, each once, and a signal
\* may be in the lists of several themes.
C26_OpportunityCounters ==
    /\ opportunity_data # NotBuilt => CountersRule(opportunity_data)
    /\ export_opp_data # NotBuilt => CountersRule(export_opp_data)

\* a signal that matches two keywords of Real-time Tracking and a keyword of
\* another theme is counted once in each of the two; a complaint naming a
\* company is among the evidence
C26_Witness ==
    /\ opportunity_data # NotBuilt /\ export_opp_data # NotBuilt
    /\ \E n \in DOMAIN insights :
          /\ Cardinality(KeywordsHit("Real-time Tracking", insights[n])) >= 2
          /\ KeywordsHit("Historical Trends", insights[n]) # {}
          /\ DictGet(opportunity_data, "Historical Trends").evidence = 1
    /\ DictGet(opportunity_data, "Real-time Tracking").evidence >= 3
    /\ DictGet(opportunity_data, "Real-time Tracking").companies_complained # {}
    /\ DictGet(export_opp_data, "Real-time Tracking").complaints
          < DictGet(export_opp_data, "Real-time Tracking").evidence

-----------------------------------------------------------------------------
(* The run log over many runs *)

InitLog == /\ LogStart /\ EnrichIdle /\ DedupIdle /\ DeltaIdle /\ ViewIdle /\ MoreIdle

NextLog ==
    \/ ScheduledRun /\ UNCHANGED <<enrichVars, dedupVars, deltaVars, viewVars, moreVars>>
    \/ ManualRun /\ UNCHANGED <<enrichVars, dedupVars, deltaVars, viewVars, moreVars>>

SpecLog == InitLog /\ [][NextLog]_vars

\* C27: every run that finishes, completed or failed, started through
\* run_pipeline or through the scheduler, appends exactly one entry to the
\* run log, with status completed or failed; the log never holds more than
\* 100 entries; the entries kept are the most recent ones, in the order the
\* runs finished: the entries before the new one are the last entries of
\* the log as it was, nothing but the oldest entries being dropped.
C27_OneEntryPerRun ==
    [][runNo' = runNo + 1 =>
          LET kept == Len(runLog') - 1 IN
          /\ Len(runLog') <= 100
          /\ Len(runLog') = IF Len(runLog) < 100 THEN Len(runLog) + 1 ELSE 100
          /\ runLog'[Len(runLog')].status \in {"completed", "failed"}
          /\ runLog'[Len(runLog')].status = status'
          /\ runLog'[Len(runLog')].completed_at = IsoNow(now')
          /\ SubSeq(runLog', 1, kept) = SubSeq(runLog, Len(runLog) - kept + 1, Len(runLog))
      ]_vars

\* two runs were logged on top of 100 entries: the log holds 100 entries,
\* the two oldest are gone and the entries of the two runs are its last
C27_Witness ==
    /\ runNo = 2
    /\ Len(runLog) = 100
    /\ Len(logAtStart) = 100
    /\ runLog[99] = logAtStart[100]
    /\ runLog[98].completed_at = PastStamps[2]
    /\ runLog[99].status = "completed"
    /\ runLog[100].status = "failed"

-----------------------------------------------------------------------------
(* The since_date of the scheduler *)

\* for every completed_at of the model, the calendar date one hour earlier
DatesAnHourBefore == <<
    <<"2025-12-30T12:00:00", "2025-12-30">>,
    <<"2025-12-31T00:20:00.000500", "2025-12-30">>,
    <<"2026-01-01T00:30:00.123456", "2025-12-31">>,
    <<"2026-01-01T01:00:00", "2026-01-01">>,
    <<"2026-03-01T00:59:59.999999", "2026-02-28">>,
    <<"2026-03-01T08:15:30.500000", "2026-03-01">>,
    <<"2028-03-01T00:00:00", "2028-02-29">>,
    <<"2028-12-31T23:59:59", "2028-12-31">>,
    <<"2029-05-01T00:10:00.000001", "2029-04-30">>,
    <<"2029-05-01T09:00:00", "2029-05-01">>,
    <<"2029-11-01T00:00:01", "2029-10-31">>,
    <<"2029-11-02T12:00:00", "2029-11-02">>
>>

DateAnHourBefore(ts) ==
    DatesAnHourBefore[CHOOSE n \in DOMAIN DatesAnHourBefore :
                         DatesAnHourBefore[n][1] = ts][2]

\* the since_date the claim gives a scheduled run that finds the log
StatedSince(log) ==
    LET done == {n \in DOMAIN log : log[n].status = "completed"}
    IN  IF done = {} THEN None
        ELSE DateAnHourBefore(log[Max(done)].completed_at)

\* C28: the since_date of a scheduled run is the calendar date of
\* completed_at minus one hour of the most recent entry of the run log with
\* status completed, and None (a full run) when the log holds no such
\* entry; a failed run does not advance it: the scheduled run that follows
\* a failed run takes the date the log gave before the failed run, or None
\* when the completed entry has left the log.
C28_SinceDateOfScheduledRun ==
    /\ [](entry = "scheduler" => since_date = StatedSince(logAtStart))
    /\ [][(status = "failed" /\ runNo' = runNo + 1 /\ entry' = "scheduler")
              => since_date' \in {StatedSince(logAtStart), None}]_vars

\* a scheduled run followed a failed run: it took the day before the date
\* of the last completed entry, which was logged twenty minutes after
\* midnight
C28_Witness ==
    /\ runNo = 2
    /\ entry = "scheduler"
    /\ logAtStart[Len(logAtStart)].status = "failed"
    /\ \E n \in DOMAIN logAtStart :
          /\ logAtStart[n].status = "completed"
          /\ logAtStart[n].completed_at = "2025-12-31T00:20:00.000500"
    /\ since_date = "2025-12-30"

-----------------------------------------------------------------------------
(* The enriched file after an incremental run *)

InitIncremental == /\ PipeIdle /\ EnrichIdle /\ DedupIdle /\ DeltaIdle
                   /\ IncrementalStart /\ SentimentIdle /\ DeckIdle /\ DiscoveryIdle

NextIncremental ==
    \/ IncrementalEnrichment /\ UNCHANGED <<pipeVars, enrichVars, dedupVars, deltaVars,
                                            sentVars, deckVars, discVars>>
    \/ IncrementalTrends /\ UNCHANGED <<pipeVars, enrichVars, dedupVars, deltaVars,
                                        sentVars, deckVars, discVars>>
    \/ IncrementalClustering /\ UNCHANGED <<pipeVars, enrichVars, dedupVars, deltaVars,
                                            sentVars, deckVars, discVars>>

SpecIncremental == InitIncremental /\ [][NextIncremental]_vars

\* the signals of a list with a post_date of since or later
NotBefore(list, since) ==
    SelectSeq(list, LAMBDA s : ~StrLess(Get(s, "post_date", ""), since))

\* C29: after run_enrichment with since_date d every signal of the enriched
\* file has post_date >= d, a missing one counting as the empty text, and the
\* trends and clusters of the run are those of such signals alone
C29_NothingOlderThanSince ==
    (batch # NoBatch /\ ~batch.raised) =>
        /\ insights = NotBefore(insights, batch.since)
        /\ trend_data # NoTrends =>
              trend_data = RunTrendsOf(NotBefore(insights, batch.since))
        /\ clusters # NotClustered =>
              clusters = ClusteringOf(NotBefore(insights, batch.since))

\* what run_enrichment writes, when it writes, holds nothing older than since
C29_WrittenOutputNotOlder ==
    (batch # NoBatch /\ batch.saved) =>
        /\ batch.output = NotBefore(batch.output, batch.since)
        /\ insights = batch.output

-----------------------------------------------------------------------------
(* The stored sources across discovery runs *)

InitDiscovery == /\ PipeIdle /\ EnrichIdle /\ DedupIdle /\ DeltaIdle
                 /\ GateIdle /\ SentimentIdle /\ TrendsIdle /\ DeckIdle
                 /\ DiscoveryStart

NextDiscovery ==
    \/ RunDiscovery /\ UNCHANGED <<pipeVars, enrichVars, dedupVars, deltaVars,
                                   gateVars, sentVars, trendVars, deckVars>>
    \/ EnrichedFileReplaced /\ UNCHANGED <<pipeVars, enrichVars, dedupVars, deltaVars,
                                           gateVars, sentVars, trendVars, deckVars>>
    \/ UserDecides /\ UNCHANGED <<pipeVars, enrichVars, dedupVars, deltaVars,
                                  gateVars, sentVars, trendVars, deckVars>>

SpecDiscovery == InitDiscovery /\ [][NextDiscovery]_vars

\* the entries of a stored list for a domain
EntriesOf(list, domain) == {n \in DOMAIN list : list[n].domain = domain}

\* C30: a call of run_discovery keeps every stored domain, keeps the status
\* of a domain stored as approved or rejected, and lowers no mention_count
C30_StoredSourcesKept ==
    [][discovery_runs' = discovery_runs + 1 =>
          \A n \in DOMAIN existing :
             LET after == EntriesOf(existing', existing[n].domain)
             IN  /\ Cardinality(after) = 1
                 /\ \A m \in after :
                       /\ existing[n].status \in {"approved", "rejected"}
                             => existing'[m].status = existing[n].status
                       /\ existing'[m].mention_count >= existing[n].mention_count]_vars

\* a second run has written the file: a source approved earlier is found again
\* with a smaller count and is still approved with its old count, and a
\* rejected source that the scan did not find is still stored
C30_Witness ==
    /\ discovery_runs = 2
    /\ \E n \in DOMAIN existing :
          /\ existing[n].domain = "geo.io"
          /\ existing[n].status = "approved"
          /\ existing[n].mention_count = 2
          /\ existing[n].first_seen = ""
    /\ \E n \in DOMAIN existing :
          /\ existing[n].status = "rejected"
          /\ \A m \in DOMAIN insights :
                existing[n].domain \notin DomainsInText(insights[m])

====
